---- MODULE Spec2Model ----
(***************************************************************************)
(* Model of the tiny-basic-compiler front end: the lexical pipeline        *)
(* (src/src/lexer/lexer.rs) and the shift-reduce grammar engine            *)
(* (src/src/grammar/grammar.rs, src/src/grammar/rule/mod.rs).              *)
(***************************************************************************)
EXTENDS Integers, Sequences, FiniteSets, TLC

VARIABLES
    \* ---- lexical pipeline (LexerBuilder / Lexer / TokenIterator) ----
    lphase,         \* "builder" | "lexer" | "iter" : before build(), built, iterating
    lexer_modules,  \* Vec<Box<dyn LexerModule>> : the recognizers, in list order
    input_stream,   \* TokenIterator.input_stream : the remaining input
    items,          \* what the pulls (Iterator::next) returned so far, in order
    calls,          \* recognizer invocations made by the latest pull, in order
    panicked,       \* the latest pull aborted (a slice off a character boundary)
    source,         \* the text build() was given
    \* ---- grammar engine (GrammarBuilder / Grammar::parse) ----
    gphase,         \* "builder" | "built" | "nogrammar" | "parsing" | "returned"
    starting_rule,  \* GrammarBuilder.starting_rule / Grammar.default_rule
    rules,          \* GrammarBuilder.rules / Grammar.rules
    tokens,         \* the input handed to the current parse call
    pos,            \* how many tokens of it the for loop has taken
    input_stack,    \* the working stack of the current parse call
    result,         \* what the parse call returned
    last,           \* the latest iteration: the stack after its shift, and the
                    \* reduction it found (drop count and rule number)
    unreachable,    \* the pop loop of a reduction found the stack empty
    added,          \* the rules handed to add_rule so far, in call order
    \* ---- Rule::matches on its own ----
    mrule,          \* the rule
    mrhs,           \* the candidate sequence
    mresult,        \* what matches returned (FALSE before any call)
    \* ---- a Rule under construction ----
    built_rule,     \* the Rule value the builder calls hand on
    rule_calls,     \* the builder calls made on it, Rule::new first
    \* ---- identifier service (IdGenerator) ----
    GEN_ID,         \* static GEN_ID: AtomicUsize in IdGenerator::new
    generators,     \* the IdGenerator values created so far: [id, idx]
    issued,         \* the id() calls so far: which generator, what it returned
    creating,       \* per thread: where its IdGenerator::new call stands
    \* ---- one Grammar used by several parse calls ----
    shared,         \* the Grammar: default_rule, rules, id_generator
    parses,         \* per caller: its parse call (phase, input, position,
                    \* working stack, result) and whether it called before
    \* ---- one recognizer called on its own ----
    rkind,          \* which recognizer ("none" before the call)
    rparts,         \* how the stream was put together: lead, word, trail
    rstream,        \* the stream handed to parse_stream
    rresult,        \* the LexerModuleResult it returned
    \* ---- RelOpSymbol::try_from on its own ----
    relop_value,    \* the &[Symbol] handed to try_from
    relop_result,   \* the Result it returned
    \* ---- one conversion called on its own ----
    conv_kind,      \* which conversion was called, "none" before the call
    conv_input,     \* what it was given
    conv_result     \* what it returned

lexVars == <<lphase, lexer_modules, input_stream, items, calls, panicked, source>>

gramVars == <<gphase, starting_rule, rules, tokens, pos, input_stack, result, last,
              unreachable, added>>

matchVars == <<mrule, mrhs, mresult>>

ruleVars == <<built_rule, rule_calls>>

idVars == <<GEN_ID, generators, issued, creating>>

sharedVars == <<shared, parses>>

recogVars == <<rkind, rparts, rstream, rresult>>

relopVars == <<relop_value, relop_result>>

convVars == <<conv_kind, conv_input, conv_result>>

laterVars == <<ruleVars, idVars, sharedVars, recogVars, relopVars, convVars>>

vars == <<lexVars, gramVars, matchVars, laterVars>>

(***************************************************************************)
(* Bounds                                                                  *)
(***************************************************************************)
MaxModules == 2     \* recognizers in a pipeline
MaxLen     == 3     \* characters of input text
MaxConsume == 2     \* characters one Success may consume
MaxPulls   == 3     \* calls of Iterator::next that are followed
MaxRules   == 3     \* rules added to a grammar
MaxTokens  == 3     \* tokens handed to one parse call
MaxRhs     == 2     \* schemas of a rule handed to matches on its own
MaxCands   == 2     \* candidate nodes handed to matches on its own
MaxSpaces  == 2     \* spaces between two lexemes of a program text
MaxLangPulls == 6   \* pulls followed on a program text
MaxSymbols == 3     \* builder calls that add a symbol to one rule
MaxGenerators == 3  \* IdGenerator::new calls
MaxIssued  == 4     \* IdGenerator::id calls, over all generators
MaxThreads == 2     \* threads that create generators
MaxSharedRules == 2 \* rules of a grammar that several calls use
MaxSharedTokens == 2 \* tokens handed to one of these calls
MaxStringLen == 4   \* characters of a stream handed to the string recognizer
MaxNumberLen == 3   \* characters of a stream handed to the number recognizer
MaxLead    == 1     \* whitespace characters before the first word
MaxRelOpLen == 3    \* symbols handed to RelOpSymbol::try_from
MaxLoopRules == 2   \* rules of a grammar with unit and self-referential rules
MaxLoopTokens == 3  \* tokens parsed with such a grammar
MaxLineFeeds == 2   \* line feeds between two lexemes of a program text
MaxRelOpRules == 2  \* rules of a grammar of relational operators
MaxRelOpTokens == 2 \* symbol tokens parsed with such a grammar

(***************************************************************************)
(* Input text.  A &str is UTF-8; "a" is one byte wide, "e'" is a character *)
(* two bytes wide, so that byte index 1 of a text that starts with it is   *)
(* not a character boundary.  A text is the sequence of its characters; a  *)
(* character of printable ASCII is written as itself, tab, line feed, form *)
(* feed and carriage return by their escapes, and every other character by *)
(* its name, "U+" and four to six upper-case hexadecimal digits ("U+20AC",  *)
(* "U+0060" for the grave accent).                                         *)
(***************************************************************************)
Chars == {"a", "e'"}

RECURSIVE SeqsUpTo(_, _)
SeqsUpTo(S, n) ==
    IF n = 0 THEN {<<>>}
    ELSE LET shorter == SeqsUpTo(S, n - 1)
         IN  shorter \cup {Append(s, x) : s \in {t \in shorter : Len(t) = n - 1}, x \in S}

Texts == SeqsUpTo(Chars, MaxLen)

Drop(s, n) == SubSeq(s, n + 1, Len(s))

Min(a, b) == IF a < b THEN a ELSE b

(***************************************************************************)
(* LexerModuleResult (src/src/lexer/mod.rs)                                *)
(***************************************************************************)
LexTokens == {"t1", "t2"}

TokenSuccess(tok, rem) == [res |-> "TokenSuccess", token |-> tok, remainder |-> rem]
TokenIgnored == [res |-> "TokenIgnored", token |-> "-", remainder |-> <<>>]
TokenFailed == [res |-> "TokenFailed", token |-> "-", remainder |-> <<>>]

is_ignored(r) == r.res = "TokenIgnored"
is_failure(r) == r.res = "TokenFailed"

(***************************************************************************)
(* The recognizers of the language                                         *)
(* (src/src/lang/lexer_modules/keyword_lexer_module.rs,                    *)
(*  src/src/lexer/lexer_modules/variable_lexer_module.rs,                  *)
(*  src/src/lexer/lexer_modules/number_lexer_module.rs,                    *)
(*  src/src/lexer/token.rs)                                                *)
(***************************************************************************)
UpperCase ==
    <<"A", "B", "C", "D", "E", "F", "G", "H", "I", "J", "K", "L", "M",
      "N", "O", "P", "Q", "R", "S", "T", "U", "V", "W", "X", "Y", "Z">>

LowerCase ==
    <<"a", "b", "c", "d", "e", "f", "g", "h", "i", "j", "k", "l", "m",
      "n", "o", "p", "q", "r", "s", "t", "u", "v", "w", "x", "y", "z">>

Digits == <<"0", "1", "2", "3", "4", "5", "6", "7", "8", "9">>

IndexIn(seq, c) == CHOOSE i \in DOMAIN seq : seq[i] = c

Among(seq, c) == \E i \in DOMAIN seq : seq[i] = c

HexDigits ==
    <<"0", "1", "2", "3", "4", "5", "6", "7", "8", "9", "A", "B", "C", "D", "E", "F">>

\* c is the name of a character.
IsName(c) ==
    /\ Len(c) \in 6..8
    /\ SubSeq(c, 1, 2) = "U+"
    /\ \A i \in 3..Len(c) : Among(HexDigits, SubSeq(c, i, i))

\* The code point a name stands for, read from its i-th character on.
RECURSIVE CodePoint(_, _, _)
CodePoint(c, i, acc) ==
    IF i > Len(c) THEN acc
    ELSE CodePoint(c, i + 1, 16 * acc + (IndexIn(HexDigits, SubSeq(c, i, i)) - 1))

Punctuation ==
    {" ", "!", "\"", "#", "$", "%", "&", "'", "(", ")", "*", "+", ",", "-", ".", "/",
     ":", ";", "<", "=", ">", "?", "@", "[", "\\", "]", "^", "_", "{", "|", "}", "~"}

\* The characters written as themselves that are one byte of UTF-8.
Ascii(c) ==
    \/ Among(UpperCase, c) \/ Among(LowerCase, c) \/ Among(Digits, c)
    \/ c \in Punctuation
    \/ c \in {"\t", "\n", "", "\f", "\r"}

\* char::len_utf8 of a code point
len_utf8(code) ==
    IF code < 128 THEN 1
    ELSE IF code < 2048 THEN 2
    ELSE IF code < 65536 THEN 3
    ELSE 4

\* The bytes a character takes in a &str.  Written as itself, a character
\* outside ASCII is taken to be two bytes wide, as "e'" is, but for U+1680.
Width(c) ==
    IF IsName(c) THEN len_utf8(CodePoint(c, 3, 0))
    ELSE IF Ascii(c) THEN 1
    ELSE IF c = " " THEN 3
    ELSE 2

\* The code points with the Unicode property White_Space: U+0009..U+000D,
\* U+0020, U+0085, U+00A0, U+1680, U+2000..U+200A, U+2028, U+2029, U+202F,
\* U+205F, U+3000
White_Space ==
    (9..13) \cup {32, 133, 160, 5760} \cup (8192..8202)
    \cup {8232, 8233, 8239, 8287, 12288}

\* char::is_whitespace, on a name and on a character written as itself
is_whitespace(c) ==
    IF IsName(c) THEN CodePoint(c, 3, 0) \in White_Space
    ELSE c \in {"\t", "\n", "", "\f", "\r", " ", "", " ", " "}

is_ascii_digit(c) == Among(Digits, c)

to_ascii_lowercase(c) ==
    IF Among(UpperCase, c) THEN LowerCase[IndexIn(UpperCase, c)] ELSE c

eq_ignore_ascii_case(a, b) ==
    /\ Len(a) = Len(b)
    /\ \A i \in DOMAIN a : to_ascii_lowercase(a[i]) = to_ascii_lowercase(b[i])

\* impl FromStr for Keyword: the spellings in the order they are compared.
KeywordSpellings ==
    << [spelling |-> <<"p", "r", "i", "n", "t">>, keyword |-> "Print"],
       [spelling |-> <<"i", "f">>, keyword |-> "If"],
       [spelling |-> <<"t", "h", "e", "n">>, keyword |-> "Then"],
       [spelling |-> <<"g", "o", "t", "o">>, keyword |-> "Goto"],
       [spelling |-> <<"i", "n", "p", "u", "t">>, keyword |-> "Input"],
       [spelling |-> <<"l", "e", "t">>, keyword |-> "Let"],
       [spelling |-> <<"g", "o", "s", "u", "b">>, keyword |-> "GoSub"],
       [spelling |-> <<"r", "e", "t", "u", "r", "n">>, keyword |-> "Return"],
       [spelling |-> <<"c", "l", "e", "a", "r">>, keyword |-> "Clear"],
       [spelling |-> <<"l", "i", "s", "t">>, keyword |-> "List"],
       [spelling |-> <<"r", "u", "n">>, keyword |-> "Run"],
       [spelling |-> <<"e", "n", "d">>, keyword |-> "End"] >>

KeywordFromStrExact(word) ==
    \* bug: the spelling is compared case-sensitively
    LET hits == {i \in DOMAIN KeywordSpellings : word = KeywordSpellings[i].spelling}
    IN  IF hits = {} THEN [ok |-> FALSE, keyword |-> "-"]
        ELSE [ok |-> TRUE,
              keyword |-> KeywordSpellings[CHOOSE i \in hits : \A j \in hits : i <= j].keyword]

KeywordFromStr(word) ==
    LET hits == {i \in DOMAIN KeywordSpellings :
                    eq_ignore_ascii_case(word, KeywordSpellings[i].spelling)}
    IN  IF hits = {} THEN [ok |-> FALSE, keyword |-> "-"]
        ELSE [ok |-> TRUE,
              keyword |-> KeywordSpellings[CHOOSE i \in hits : \A j \in hits : i <= j].keyword]

\* Variable::try_from(u8)
VariableTryFrom(c) ==
    IF Among(UpperCase, c) THEN [ok |-> TRUE, value |-> IndexIn(UpperCase, c) - 1]
    ELSE IF Among(LowerCase, c) THEN [ok |-> TRUE, value |-> IndexIn(LowerCase, c) - 1]
    ELSE [ok |-> FALSE, value |-> 0]

\* The text of a sequence of characters.
RECURSIVE Text(_)
Text(chars) == IF chars = <<>> THEN "" ELSE Head(chars) \o Text(Tail(chars))

\* Tokens of the language, as their Debug rendering.  A usize is held as its
\* decimal digits, the way Debug writes it: its values go beyond the integers
\* that can be computed with here.
KeywordToken(k) == "Keyword(" \o k \o ")"
VariableToken(v) == "Variable(" \o ToString(v) \o ")"
NumberToken(n) == "Number(" \o Text(n) \o ")"
SymbolToken(symbol) == "Symbol(" \o symbol \o ")"
NewLine == "NewLine"

\* impl TryFrom<u8> for Symbol, on the character the byte stands for
SymbolTryFrom(c) ==
    CASE c = "<" -> [ok |-> TRUE, symbol |-> "LessThanSign"]
      [] c = ">" -> [ok |-> TRUE, symbol |-> "GreaterThanSign"]
      [] c = "=" -> [ok |-> TRUE, symbol |-> "EqualsSign"]
      [] c = "+" -> [ok |-> TRUE, symbol |-> "Plus"]
      [] c = "-" -> [ok |-> TRUE, symbol |-> "Minus"]
      [] c = "*" -> [ok |-> TRUE, symbol |-> "Times"]
      [] c = "/" -> [ok |-> TRUE, symbol |-> "Divide"]
      [] c = "," -> [ok |-> TRUE, symbol |-> "Comma"]
      [] OTHER -> [ok |-> FALSE, symbol |-> "-"]

\* The character predicates the recognizers search with.
Satisfies(pred, c) ==
    CASE pred = "whitespace" -> is_whitespace(c)
      [] pred = "not whitespace" -> ~is_whitespace(c)
      [] pred = "not digit" -> ~is_ascii_digit(c)

\* str::find with a predicate: the index of the first character, from i on,
\* that satisfies it, -1 for None.
RECURSIVE FindFirst(_, _, _)
FindFirst(stream, pred, i) ==
    IF i >= Len(stream) THEN -1
    ELSE IF Satisfies(pred, stream[i + 1]) THEN i
    ELSE FindFirst(stream, pred, i + 1)

\* get_first_word: string.split_whitespace().next(); <<>> stands for None.
get_first_word(string) ==
    LET start == FindFirst(string, "not whitespace", 0)
    IN  IF start = -1 THEN <<>>
        ELSE LET rest == Drop(string, start)
                 stop == FindFirst(rest, "whitespace", 0)
             IN  IF stop = -1 THEN rest ELSE SubSeq(rest, 1, stop)

\* str::find with a pattern that occurs in the stream.
Find(stream, pattern) ==
    LET occurs(i) == SubSeq(stream, i + 1, i + Len(pattern)) = pattern
    IN  CHOOSE i \in 0..(Len(stream) - Len(pattern)) :
            occurs(i) /\ \A j \in 0..(i - 1) : ~occurs(j)

KeywordLexerModuleNoLead(stream) ==
    \* bug: the word is assumed to start the stream
    LET token == get_first_word(stream)
    IN  IF token = <<>> THEN TokenIgnored
        ELSE LET remainder == Drop(stream, Len(token))
                 keyword == KeywordFromStr(token)
             IN  IF ~keyword.ok THEN TokenIgnored
                 ELSE TokenSuccess(KeywordToken(keyword.keyword), remainder)

\* KeywordLexerModule::parse_stream
KeywordLexerModule(stream) ==
    LET token == get_first_word(stream)
    IN  IF token = <<>> THEN TokenIgnored
        ELSE LET remainder == Drop(stream, Find(stream, token) + Len(token))
                 keyword == KeywordFromStr(token)
             IN  IF ~keyword.ok THEN TokenIgnored
                 ELSE TokenSuccess(KeywordToken(keyword.keyword), remainder)

\* VariableLexerModule::parse_stream
VariableLexerModule(stream) ==
    IF stream = <<>> THEN TokenIgnored
    ELSE LET variable == VariableTryFrom(Head(stream))
         IN  IF ~variable.ok THEN TokenIgnored
             ELSE TokenSuccess(VariableToken(variable.value), Drop(stream, 1))

\* get_all_digits_at_start: &stream[0..index.unwrap_or(0)]
get_all_digits_at_start(stream) ==
    LET index == FindFirst(stream, "not digit", 0)
    IN  SubSeq(stream, 1, IF index = -1 THEN 0 ELSE index)

\* usize::MAX, 2^64 - 1 (a 64-bit target), in decimal digits
UsizeMax ==
    <<"1", "8", "4", "4", "6", "7", "4", "4", "0", "7", "3", "7", "0", "9", "5", "5",
      "1", "6", "1", "5">>

\* The digits of a number without its leading zeros.
RECURSIVE StripZeros(_)
StripZeros(digits) ==
    IF Len(digits) > 1 /\ Head(digits) = "0" THEN StripZeros(Tail(digits)) ELSE digits

\* a <= b, for two numbers of as many digits
RECURSIVE DigitsLeq(_, _)
DigitsLeq(a, b) ==
    IF a = <<>> THEN TRUE
    ELSE IF Head(a) # Head(b) THEN IndexIn(Digits, Head(a)) < IndexIn(Digits, Head(b))
    ELSE DigitsLeq(Tail(a), Tail(b))

\* str::parse::<usize>: an optional plus sign and one or more digits; an
\* error on the empty string, on any other character and on a number above
\* usize::MAX.
ParseUsize(src) ==
    LET digits == IF src # <<>> /\ Head(src) = "+" THEN Tail(src) ELSE src
        number == StripZeros(digits)
        Err == [ok |-> FALSE, value |-> <<>>]
    IN  IF digits = <<>> \/ \E i \in DOMAIN digits : ~is_ascii_digit(digits[i]) THEN Err
        ELSE IF Len(number) > Len(UsizeMax) THEN Err
        ELSE IF Len(number) = Len(UsizeMax) /\ ~DigitsLeq(number, UsizeMax) THEN Err
        ELSE [ok |-> TRUE, value |-> number]

\* NumberLexerModule::parse_stream
NumberLexerModule(stream) ==
    LET number_str == get_all_digits_at_start(stream)
        number == ParseUsize(number_str)
    IN  IF number_str = <<>> THEN TokenIgnored
        ELSE IF ~number.ok THEN TokenIgnored
        ELSE TokenSuccess(NumberToken(number.value), Drop(stream, Len(number_str)))

StringToken(contents) == "String(" \o Text(contents) \o ")"

\* str::find with a character: the index of its first occurrence, from i on,
\* -1 for None.
RECURSIVE FindChar(_, _, _)
FindChar(stream, c, i) ==
    IF i >= Len(stream) THEN -1
    ELSE IF stream[i + 1] = c THEN i
    ELSE FindChar(stream, c, i + 1)

StringLexerModuleKeepQuote(stream) ==
    \* bug: the remainder starts at the closing quote
    IF stream = <<>> \/ Head(stream) # "\"" THEN TokenIgnored
    ELSE LET found == FindChar(Drop(stream, 1), "\"", 0)
         IN  IF found = -1 THEN TokenFailed
             ELSE LET end_quote_pos == found + 1
                  IN  TokenSuccess(StringToken(SubSeq(stream, 2, end_quote_pos)),
                                   Drop(stream, end_quote_pos))

\* StringLexerModule::parse_stream
StringLexerModule(stream) ==
    IF stream = <<>> \/ Head(stream) # "\"" THEN TokenIgnored
    ELSE LET found == FindChar(Drop(stream, 1), "\"", 0)
         IN  IF found = -1 THEN TokenFailed
             ELSE LET end_quote_pos == found + 1
                  IN  TokenSuccess(StringToken(SubSeq(stream, 2, end_quote_pos)),
                                   Drop(stream, end_quote_pos + 1))

\* SymbolLexerModule::parse_stream
SymbolLexerModule(stream) ==
    IF stream = <<>> THEN TokenIgnored
    ELSE LET symbol == SymbolTryFrom(Head(stream))
         IN  IF ~symbol.ok THEN TokenIgnored
             ELSE TokenSuccess(SymbolToken(symbol.symbol), Drop(stream, 1))

\* NewlineLexerModule::parse_stream
NewlineLexerModule(stream) ==
    IF stream # <<>> /\ Head(stream) = "\n"
    THEN TokenSuccess(NewLine, Drop(stream, 1))
    ELSE TokenIgnored

\* What a recognizer of the given kind may return on a non-empty stream.
\* "any" is an arbitrary (possibly stateful) implementation of the trait: every
\* outcome, a Success handing back any suffix of the stream as the remainder.
ModuleOutcomes(kind, stream) ==
    CASE kind = "keyword" -> {KeywordLexerModule(stream)}
      [] kind = "variable" -> {VariableLexerModule(stream)}
      [] kind = "number" -> {NumberLexerModule(stream)}
      [] kind = "string" -> {StringLexerModule(stream)}
      [] kind = "symbol" -> {SymbolLexerModule(stream)}
      [] kind = "newline" -> {NewlineLexerModule(stream)}
      [] OTHER ->
            {TokenIgnored, TokenFailed}
            \cup {TokenSuccess(t, Drop(stream, n)) :
                     t \in LexTokens, n \in 0..Min(MaxConsume, Len(stream))}

\* Option<Result<Token, Error>> as returned by a pull.
SomeOk(tok) == [kind |-> "Ok", token |-> tok]
SomeErr == [kind |-> "Err", token |-> "-"]
None == [kind |-> "None", token |-> "-"]

(***************************************************************************)
(* TokenIterator::try_each_lexer: the possible runs of the recognizer chain *)
(* from module k on; each run is the result and the invocations made.       *)
(***************************************************************************)
Call(k, stream, r) ==
    [module |-> k, stream |-> stream, res |-> r.res, token |-> r.token,
     remainder |-> r.remainder]

RECURSIVE TryEachLexerMut(_, _, _)
TryEachLexerMut(mods, k, stream) ==
    \* bug: a non-ignored result does not stop the loop; the last one wins
    IF k > Len(mods) THEN {[result |-> TokenIgnored, calls |-> <<>>]}
    ELSE UNION {
           { [result |-> IF is_ignored(rest.result) THEN o ELSE rest.result,
              calls |-> <<Call(k, stream, o)>> \o rest.calls]
               : rest \in TryEachLexerMut(mods, k + 1, stream) }
           : o \in ModuleOutcomes(mods[k], stream) }

RECURSIVE TryEachLexer(_, _, _)
TryEachLexer(mods, k, stream) ==
    IF k > Len(mods) THEN {[result |-> TokenIgnored, calls |-> <<>>]}
    ELSE UNION {
           IF ~is_ignored(o)
           THEN { [result |-> o, calls |-> <<Call(k, stream, o)>>] }
           ELSE { [result |-> rest.result,
                   calls |-> <<Call(k, stream, o)>> \o rest.calls]
                    : rest \in TryEachLexer(mods, k + 1, stream) }
           : o \in ModuleOutcomes(mods[k], stream) }

(***************************************************************************)
(* TokenIterator::try_parse_first_token on a non-empty input_stream.       *)
(* &remainder[1..] panics when byte 1 is not a character boundary.          *)
(***************************************************************************)
TryParseFirstTokenSkipOne(mods, stream) ==
    \* bug: on Success the input advances by one character, whatever the
    \* remainder the recognizer supplied
    { IF is_failure(t.result)
      THEN [item |-> SomeErr, stream |-> stream, calls |-> t.calls, panicked |-> FALSE]
      ELSE IF is_ignored(t.result)
      THEN IF Width(Head(stream)) = 1
           THEN [item |-> None, stream |-> Tail(stream), calls |-> t.calls,
                 panicked |-> FALSE]
           ELSE [item |-> None, stream |-> stream, calls |-> t.calls,
                 panicked |-> TRUE]
      ELSE [item |-> SomeOk(t.result.token), stream |-> Tail(stream),
            calls |-> t.calls, panicked |-> FALSE]
      : t \in TryEachLexer(mods, 1, stream) }

TryParseFirstTokenKeepInput(mods, stream) ==
    \* bug: on Success the input stream is not moved to the remainder
    { IF is_failure(t.result)
      THEN [item |-> SomeErr, stream |-> stream, calls |-> t.calls, panicked |-> FALSE]
      ELSE IF is_ignored(t.result)
      THEN IF Width(Head(stream)) = 1
           THEN [item |-> None, stream |-> Tail(stream), calls |-> t.calls,
                 panicked |-> FALSE]
           ELSE [item |-> None, stream |-> stream, calls |-> t.calls,
                 panicked |-> TRUE]
      ELSE [item |-> SomeOk(t.result.token), stream |-> stream,
            calls |-> t.calls, panicked |-> FALSE]
      : t \in TryEachLexer(mods, 1, stream) }

TryParseFirstToken(mods, stream) ==
    { IF is_failure(t.result)
      THEN [item |-> SomeErr, stream |-> stream, calls |-> t.calls, panicked |-> FALSE]
      ELSE IF is_ignored(t.result)
      THEN IF Width(Head(stream)) = 1
           THEN [item |-> None, stream |-> Tail(stream), calls |-> t.calls,
                 panicked |-> FALSE]
           ELSE [item |-> None, stream |-> stream, calls |-> t.calls,
                 panicked |-> TRUE]
      ELSE [item |-> SomeOk(t.result.token), stream |-> t.result.remainder,
            calls |-> t.calls, panicked |-> FALSE]
      : t \in TryEachLexer(mods, 1, stream) }

(***************************************************************************)
(* TokenIterator::parse_stream: loop until the stream is empty or an       *)
(* attempt produced an item.                                                *)
(***************************************************************************)
RECURSIVE ParseStreamAskOnEmpty(_, _)
ParseStreamAskOnEmpty(mods, stream) ==
    \* bug: the recognizers are consulted on an empty stream too
    IF stream = <<>>
    THEN { [item |-> IF is_failure(t.result) THEN SomeErr
                     ELSE IF is_ignored(t.result) THEN None
                     ELSE SomeOk(t.result.token),
            stream |-> stream, calls |-> t.calls, panicked |-> FALSE]
           : t \in TryEachLexer(mods, 1, stream) }
    ELSE UNION {
           IF r.panicked \/ r.item # None
           THEN {r}
           ELSE { [rest EXCEPT !.calls = r.calls \o rest.calls]
                    : rest \in ParseStreamAskOnEmpty(mods, r.stream) }
           : r \in TryParseFirstToken(mods, stream) }

RECURSIVE ParseStream(_, _)
ParseStream(mods, stream) ==
    IF stream = <<>>
    THEN {[item |-> None, stream |-> stream, calls |-> <<>>, panicked |-> FALSE]}
    ELSE UNION {
           IF r.panicked \/ r.item # None
           THEN {r}
           ELSE { [rest EXCEPT !.calls = r.calls \o rest.calls]
                    : rest \in ParseStream(mods, r.stream) }
           : r \in TryParseFirstToken(mods, stream) }

(***************************************************************************)
(* Identifiers, rules and parse trees                                      *)
(* (src/src/parser/rule/id.rs, src/src/grammar/rule/mod.rs,                *)
(*  src/src/grammar/mod.rs)                                                *)
(***************************************************************************)
Id(g, n) == [generator_id |-> g, id |-> n]
NoId == Id(-1, -1)

\* The first two identifiers issued by the builder's generator.
S == Id(0, 0)
T == Id(0, 1)

\* The language of the tests of grammar.rs: tokens A and B, and the
\* predicates handed to add_terminating_symbol.
MockLangToken == {"A", "B"}

Recognize(func, token) ==
    CASE func = "is_a" -> token = "A"
      [] func = "is_b" -> token = "B"
      [] func = "test_func" -> TRUE
      [] func = "is_lt" -> token = SymbolToken("LessThanSign")
      [] func = "is_gt" -> token = SymbolToken("GreaterThanSign")
      [] func = "is_eq" -> token = SymbolToken("EqualsSign")

\* SymbolSchema
Terminating(func) == [kind |-> "Terminating", func |-> func, id |-> NoId]
Nonterminating(id) == [kind |-> "Nonterminating", func |-> "-", id |-> id]

\* Rule::new, Rule::add_terminating_symbol, Rule::add_nonterminating_symbol
RuleNew(input_symbol) ==
    [input_symbol |-> input_symbol, replacement_symbols |-> <<>>]

add_terminating_symbol_front(rule, func) ==
    \* bug: the schema is inserted at the front
    [rule EXCEPT !.replacement_symbols = <<Terminating(func)>> \o @]

add_terminating_symbol(rule, func) ==
    [rule EXCEPT !.replacement_symbols = Append(@, Terminating(func))]

add_nonterminating_symbol(rule, id) ==
    [rule EXCEPT !.replacement_symbols = Append(@, Nonterminating(id))]

\* GrammarTree
Leaf(token) ==
    [kind |-> "Leaf", token |-> token, symbol |-> NoId, children |-> <<>>]
Node(symbol, children) ==
    [kind |-> "Node", token |-> "-", symbol |-> symbol, children |-> children]

\* Option<GrammarTree> and Option<Rule>
NoTree == [some |-> FALSE, tree |-> Leaf("-")]
SomeTree(t) == [some |-> TRUE, tree |-> t]
NoRule == [input_symbol |-> NoId, replacement_symbols |-> <<"none">>]

(***************************************************************************)
(* Rule::matches                                                           *)
(***************************************************************************)
SymbolMatchAnyNode(schema, instance) ==
    \* bug: a Nonterminating schema accepts a Node of any symbol
    CASE schema.kind = "Terminating" /\ instance.kind = "Leaf" ->
            Recognize(schema.func, instance.token)
      [] schema.kind = "Terminating" /\ instance.kind = "Node" -> FALSE
      [] schema.kind = "Nonterminating" /\ instance.kind = "Leaf" -> FALSE
      [] schema.kind = "Nonterminating" /\ instance.kind = "Node" -> TRUE

SymbolMatch(schema, instance) ==
    CASE schema.kind = "Terminating" /\ instance.kind = "Leaf" ->
            Recognize(schema.func, instance.token)
      [] schema.kind = "Terminating" /\ instance.kind = "Node" -> FALSE
      [] schema.kind = "Nonterminating" /\ instance.kind = "Leaf" -> FALSE
      [] schema.kind = "Nonterminating" /\ instance.kind = "Node" ->
            schema.id = instance.symbol

RECURSIVE MatchesFrom(_, _, _)
MatchesFrom(rule, rhs, i) ==
    IF i > Len(rhs) THEN TRUE
    ELSE IF ~SymbolMatch(rule.replacement_symbols[i], rhs[i]) THEN FALSE
    ELSE MatchesFrom(rule, rhs, i + 1)

MatchesNoLengthCheck(rule, rhs) ==
    \* bug: the lengths are not compared; zip stops at the shorter sequence
    MatchesFrom(rule, SubSeq(rhs, 1, Min(Len(rhs), Len(rule.replacement_symbols))), 1)

Matches(rule, rhs) ==
    IF Len(rule.replacement_symbols) # Len(rhs) THEN FALSE
    ELSE MatchesFrom(rule, rhs, 1)

(***************************************************************************)
(* Grammar::rules: the default rule, then the others in insertion order    *)
(***************************************************************************)
GrammarRulesMut(default_rule, others) == others \o <<default_rule>>

GrammarRules(default_rule, others) == <<default_rule>> \o others

(***************************************************************************)
(* Grammar::parse, the body of `for next_symbol in input_stream`           *)
(***************************************************************************)
\* for rule in self.rules(): the number of the first rule, from k on, that
\* matches the slice; 0 when none does.
RECURSIVE FirstMatch(_, _, _)
FirstMatch(rs, slice, k) ==
    IF k > Len(rs) THEN 0
    ELSE IF Matches(rs[k], slice) THEN k
    ELSE FirstMatch(rs, slice, k + 1)

NoReduce == [found |-> FALSE, drop |-> 0, rule |-> 0]

\* for i in 0..input_stack.len(), descending: the shortest suffix first
RECURSIVE SearchShortestFirst(_, _, _)
SearchShortestFirst(rs, stack, i) ==
    LET j == Len(stack) - 1 - i
    IN  IF i >= Len(stack) THEN NoReduce
        ELSE LET r == FirstMatch(rs, Drop(stack, j), 1)
             IN  IF r # 0 THEN [found |-> TRUE, drop |-> j, rule |-> r]
                 ELSE SearchShortestFirst(rs, stack, i + 1)

RECURSIVE SearchWithEmptySlice(_, _, _)
SearchWithEmptySlice(rs, stack, i) ==
    \* bug: the empty slice is tried as well (0..=len)
    IF i > Len(stack) THEN NoReduce
    ELSE LET r == FirstMatch(rs, Drop(stack, i), 1)
         IN  IF r # 0 THEN [found |-> TRUE, drop |-> i, rule |-> r]
             ELSE SearchWithEmptySlice(rs, stack, i + 1)

\* for i in 0..input_stack.len(): the slice &input_stack[i..] against every rule
RECURSIVE Search(_, _, _)
Search(rs, stack, i) ==
    IF i >= Len(stack) THEN NoReduce
    ELSE LET r == FirstMatch(rs, Drop(stack, i), 1)
         IN  IF r # 0 THEN [found |-> TRUE, drop |-> i, rule |-> r]
             ELSE Search(rs, stack, i + 1)

\* for _ in 0..input_stack_slice.len(): pop a node and push it onto children.
\* An empty stack is the unreachable!() branch.
RECURSIVE PopNOneMore(_, _, _)
PopNOneMore(stack, n, children) ==
    \* bug: the loop runs once more than the slice is long (0..=len)
    IF stack = <<>>
    THEN [stack |-> stack, children |-> children, unreachable |-> TRUE]
    ELSE IF n = 0
    THEN [stack |-> SubSeq(stack, 1, Len(stack) - 1),
          children |-> Append(children, stack[Len(stack)]), unreachable |-> FALSE]
    ELSE PopNOneMore(SubSeq(stack, 1, Len(stack) - 1), n - 1,
                     Append(children, stack[Len(stack)]))

RECURSIVE PopN(_, _, _)
PopN(stack, n, children) ==
    IF n = 0 THEN [stack |-> stack, children |-> children, unreachable |-> FALSE]
    ELSE IF stack = <<>>
    THEN [stack |-> stack, children |-> children, unreachable |-> TRUE]
    ELSE PopN(SubSeq(stack, 1, Len(stack) - 1), n - 1,
              Append(children, stack[Len(stack)]))

ReduceKeepOrder(stack, n, symbol) ==
    Append(SubSeq(stack, 1, Len(stack) - n),
           Node(symbol, SubSeq(stack, Len(stack) - n + 1, Len(stack))))

ReduceLoseChild(stack, n, symbol) ==
    \* bug: only the node popped first becomes a child
    LET popped == PopN(stack, n, <<>>)
    IN  Append(popped.stack, Node(symbol, SubSeq(popped.children, 1, 1)))

ReduceNoPush(stack, n, symbol) ==
    \* bug: the new node is not pushed back
    PopN(stack, n, <<>>).stack

\* The matched slice, n nodes long, is replaced by one node.
Reduce(stack, n, symbol) ==
    LET popped == PopN(stack, n, <<>>)
    IN  Append(popped.stack, Node(symbol, popped.children))

\* Whether the pop loop of the reduction at drop count i hits None => unreachable!()
PopUnreachable(shifted, i) == PopN(shifted, Len(shifted) - i, <<>>).unreachable

\* One iteration: shift the token, search, reduce at most once.
Iteration(shifted, found, stack) ==
    [shifted |-> shifted, found |-> found.found, drop |-> found.drop,
     rule |-> found.rule, stack |-> stack]

ParseTokenTwice(rs, stack, token) ==
    \* bug: after a reduction the search runs once more
    LET shifted == Append(stack, Leaf(token))
        f1 == Search(rs, shifted, 0)
        s1 == IF f1.found
              THEN Reduce(shifted, Len(shifted) - f1.drop, rs[f1.rule].input_symbol)
              ELSE shifted
        f2 == Search(rs, s1, 0)
    IN  Iteration(shifted, f1,
                  IF f1.found /\ f2.found
                  THEN Reduce(s1, Len(s1) - f2.drop, rs[f2.rule].input_symbol)
                  ELSE s1)

ParseTokenDropUnmatched(rs, stack, token) ==
    \* bug: a token no rule reduces is not kept on the stack
    LET shifted == Append(stack, Leaf(token))
        f == Search(rs, shifted, 0)
    IN  Iteration(shifted, f,
                  IF f.found
                  THEN Reduce(shifted, Len(shifted) - f.drop, rs[f.rule].input_symbol)
                  ELSE stack)

ParseToken(rs, stack, token) ==
    LET shifted == Append(stack, Leaf(token))
        f == Search(rs, shifted, 0)
    IN  Iteration(shifted, f,
                  IF f.found
                  THEN Reduce(shifted, Len(shifted) - f.drop, rs[f.rule].input_symbol)
                  ELSE shifted)

\* input_stack.pop() at the end of parse: the result and what is left behind
PopResultStrict(stack) ==
    \* bug: anything but a single root is refused
    IF Len(stack) # 1 THEN [result |-> NoTree, stack |-> stack]
    ELSE [result |-> SomeTree(stack[1]), stack |-> <<>>]

PopResult(stack) ==
    IF stack = <<>> THEN [result |-> NoTree, stack |-> stack]
    ELSE [result |-> SomeTree(stack[Len(stack)]),
          stack |-> SubSeq(stack, 1, Len(stack) - 1)]

\* let mut input_stack = Vec::new()
NewStackSeeded(default_rule) == <<Node(default_rule.input_symbol, <<>>)>>

NewStack(default_rule) == <<>>

(***************************************************************************)
(* Rules and inputs the grammar engine is exercised with                   *)
(***************************************************************************)
Rule1(lhs, f1) == add_terminating_symbol(RuleNew(lhs), f1)
Rule2(lhs, f1, f2) == add_terminating_symbol(Rule1(lhs, f1), f2)
Rule3(lhs, f1, f2, f3) == add_terminating_symbol(Rule2(lhs, f1, f2), f3)

RulePool ==
    { Rule2(S, "is_a", "is_a"),                       \* S -> a a
      Rule2(T, "is_a", "is_a"),                       \* T -> a a
      Rule1(S, "is_a"),                               \* S -> a
      Rule2(T, "is_b", "is_a"),                       \* T -> b a
      Rule3(S, "is_a", "is_a", "is_a"),               \* S -> a a a
      Rule2(S, "test_func", "is_b"),                  \* S -> _ b
      add_nonterminating_symbol(RuleNew(T), S),       \* T -> S
      add_terminating_symbol(
          add_nonterminating_symbol(RuleNew(S), S), "is_a") }  \* S -> S a

TokenInputs == SeqsUpTo(MockLangToken, MaxTokens)

\* Rules for grammars that hold a rule without replacement symbols.
EmptyRulePool ==
    { RuleNew(S),                                     \* S ->
      Rule1(S, "is_a"),                               \* S -> a
      Rule2(T, "is_b", "is_a"),                       \* T -> b a
      add_nonterminating_symbol(RuleNew(T), S),       \* T -> S
      add_terminating_symbol(
          add_nonterminating_symbol(RuleNew(S), S), "is_a") }  \* S -> S a

(***************************************************************************)
(* Actions of the grammar engine                                           *)
(***************************************************************************)
NoIteration == Iteration(<<>>, NoReduce, <<>>)

\* GrammarBuilder::new
GrammarNew ==
    /\ gphase = "builder"
    /\ starting_rule = NoRule
    /\ rules = <<>>
    /\ tokens = <<>>
    /\ pos = 0
    /\ input_stack = <<>>
    /\ result = NoTree
    /\ last = NoIteration
    /\ unreachable = FALSE
    /\ added = <<>>

add_rule_replacing(builder, rule) ==
    \* bug: every call sets the starting rule
    [starting_rule |-> rule, rules |-> builder.rules]

\* GrammarBuilder::add_rule, on the builder's two rule fields
add_rule(builder, rule) ==
    IF builder.starting_rule = NoRule
    THEN [starting_rule |-> rule, rules |-> builder.rules]
    ELSE [starting_rule |-> builder.starting_rule, rules |-> Append(builder.rules, rule)]

build_needs_two(builder) ==
    \* bug: the emptiness of the other rules decides, not the starting rule
    IF builder.rules = <<>>
    THEN [some |-> FALSE, default_rule |-> builder.starting_rule, rules |-> builder.rules]
    ELSE [some |-> TRUE, default_rule |-> builder.starting_rule, rules |-> builder.rules]

\* GrammarBuilder::build: Option<Grammar>; `self.starting_rule?` returns None
\* when no starting rule was set.
build(builder) ==
    IF builder.starting_rule = NoRule
    THEN [some |-> FALSE, default_rule |-> NoRule, rules |-> builder.rules]
    ELSE [some |-> TRUE, default_rule |-> builder.starting_rule, rules |-> builder.rules]

\* GrammarBuilder::add_rule
AddRule ==
    /\ gphase = "builder"
    /\ (IF starting_rule = NoRule THEN 0 ELSE 1 + Len(rules)) < MaxRules
    /\ \E rule \in RulePool :
          LET builder == add_rule([starting_rule |-> starting_rule, rules |-> rules], rule)
          IN  /\ starting_rule' = builder.starting_rule
              /\ rules' = builder.rules
              /\ added' = Append(added, rule)
    /\ UNCHANGED <<gphase, tokens, pos, input_stack, result, last, unreachable>>
    /\ UNCHANGED <<lexVars, matchVars, laterVars>>

\* Unit and self-referential rules.
LoopRulePool ==
    { add_nonterminating_symbol(RuleNew(S), S),       \* S -> S
      add_terminating_symbol(
          add_nonterminating_symbol(RuleNew(S), S), "is_a"),   \* S -> S a
      Rule1(S, "is_a"),                               \* S -> a
      add_nonterminating_symbol(RuleNew(T), S) }      \* T -> S

\* GrammarBuilder::add_rule with a unit or self-referential rule
AddLoopRule ==
    /\ gphase = "builder"
    /\ (IF starting_rule = NoRule THEN 0 ELSE 1 + Len(rules)) < MaxLoopRules
    /\ \E rule \in LoopRulePool :
          LET builder == add_rule([starting_rule |-> starting_rule, rules |-> rules], rule)
          IN  /\ starting_rule' = builder.starting_rule
              /\ rules' = builder.rules
              /\ added' = Append(added, rule)
    /\ UNCHANGED <<gphase, tokens, pos, input_stack, result, last, unreachable>>
    /\ UNCHANGED <<lexVars, matchVars, laterVars>>

\* Grammar::parse, up to the for loop, with such a grammar
LoopParseCall ==
    /\ gphase \in {"built", "returned"}
    /\ \E input \in SeqsUpTo(MockLangToken, MaxLoopTokens) : tokens' = input
    /\ gphase' = "parsing"
    /\ pos' = 0
    /\ input_stack' = NewStack(starting_rule)
    /\ result' = NoTree
    /\ last' = NoIteration
    /\ unreachable' = FALSE
    /\ UNCHANGED <<starting_rule, rules, added>>
    /\ UNCHANGED <<lexVars, matchVars, laterVars>>

\* Rules for the relational operators, all with the input symbol relop = S,
\* and the symbol tokens they are parsed on.
RelOpRulePool ==
    { Rule2(S, "is_lt", "is_eq"),                     \* relop -> < =
      Rule2(S, "is_gt", "is_eq"),                     \* relop -> > =
      Rule1(S, "is_lt"),                              \* relop -> <
      Rule1(S, "is_eq") }                             \* relop -> =

RelOpTokens ==
    {SymbolToken("LessThanSign"), SymbolToken("GreaterThanSign"),
     SymbolToken("EqualsSign")}

\* GrammarBuilder::add_rule with a rule of a relational operator
AddRelOpRule ==
    /\ gphase = "builder"
    /\ (IF starting_rule = NoRule THEN 0 ELSE 1 + Len(rules)) < MaxRelOpRules
    /\ \E rule \in RelOpRulePool :
          LET builder == add_rule([starting_rule |-> starting_rule, rules |-> rules], rule)
          IN  /\ starting_rule' = builder.starting_rule
              /\ rules' = builder.rules
              /\ added' = Append(added, rule)
    /\ UNCHANGED <<gphase, tokens, pos, input_stack, result, last, unreachable>>
    /\ UNCHANGED <<lexVars, matchVars, laterVars>>

\* Grammar::parse, up to the for loop, on symbol tokens
RelOpParseCall ==
    /\ gphase = "built"
    /\ \E input \in SeqsUpTo(RelOpTokens, MaxRelOpTokens) : tokens' = input
    /\ gphase' = "parsing"
    /\ pos' = 0
    /\ input_stack' = NewStack(starting_rule)
    /\ result' = NoTree
    /\ last' = NoIteration
    /\ unreachable' = FALSE
    /\ UNCHANGED <<starting_rule, rules, added>>
    /\ UNCHANGED <<lexVars, matchVars, laterVars>>

\* GrammarBuilder::add_rule with a rule that may have no replacement symbols
AddRuleOrEmptyRule ==
    /\ gphase = "builder"
    /\ (IF starting_rule = NoRule THEN 0 ELSE 1 + Len(rules)) < MaxRules
    /\ \E rule \in EmptyRulePool :
          LET builder == add_rule([starting_rule |-> starting_rule, rules |-> rules], rule)
          IN  /\ starting_rule' = builder.starting_rule
              /\ rules' = builder.rules
              /\ added' = Append(added, rule)
    /\ UNCHANGED <<gphase, tokens, pos, input_stack, result, last, unreachable>>
    /\ UNCHANGED <<lexVars, matchVars, laterVars>>

\* GrammarBuilder::build
Build ==
    /\ gphase = "builder"
    /\ LET grammar == build([starting_rule |-> starting_rule, rules |-> rules])
       IN  /\ gphase' = IF grammar.some THEN "built" ELSE "nogrammar"
           /\ starting_rule' = grammar.default_rule
           /\ rules' = grammar.rules
    /\ UNCHANGED <<tokens, pos, input_stack, result, last, unreachable, added>>
    /\ UNCHANGED <<lexVars, matchVars, laterVars>>

\* Grammar::parse, up to the for loop
ParseCall ==
    /\ gphase \in {"built", "returned"}
    /\ \E input \in TokenInputs : tokens' = input
    /\ gphase' = "parsing"
    /\ pos' = 0
    /\ input_stack' = NewStack(starting_rule)
    /\ result' = NoTree
    /\ last' = NoIteration
    /\ unreachable' = FALSE
    /\ UNCHANGED <<starting_rule, rules, added>>
    /\ UNCHANGED <<lexVars, matchVars, laterVars>>

ParseStepReexamine ==
    \* bug: after a reduction the stack is searched again before the next
    \* token is read
    /\ gphase = "parsing"
    /\ ~unreachable
    /\ pos < Len(tokens)
    /\ LET rs == GrammarRules(starting_rule, rules)
           f == Search(rs, input_stack, 0)
           it == ParseToken(rs, input_stack, tokens[pos + 1])
       IN  IF last.found /\ f.found
           THEN /\ input_stack' = Reduce(input_stack, Len(input_stack) - f.drop,
                                         rs[f.rule].input_symbol)
                /\ last' = Iteration(input_stack, f, input_stack')
                /\ pos' = pos
                /\ UNCHANGED unreachable
           ELSE /\ input_stack' = it.stack
                /\ last' = it
                /\ unreachable' = (it.found /\ PopUnreachable(it.shifted, it.drop))
                /\ pos' = pos + 1
    /\ UNCHANGED <<gphase, starting_rule, rules, tokens, result, added>>
    /\ UNCHANGED <<lexVars, matchVars, laterVars>>

\* Grammar::parse, one iteration of the for loop
ParseStep ==
    /\ gphase = "parsing"
    /\ ~unreachable
    /\ pos < Len(tokens)
    /\ LET it == ParseToken(GrammarRules(starting_rule, rules), input_stack,
                            tokens[pos + 1])
       IN  /\ input_stack' = it.stack
           /\ last' = it
           /\ unreachable' = (it.found /\ PopUnreachable(it.shifted, it.drop))
    /\ pos' = pos + 1
    /\ UNCHANGED <<gphase, starting_rule, rules, tokens, result, added>>
    /\ UNCHANGED <<lexVars, matchVars, laterVars>>

\* Grammar::parse, after the for loop
ParseReturn ==
    /\ gphase = "parsing"
    /\ ~unreachable
    /\ pos = Len(tokens)
    /\ LET r == PopResult(input_stack)
       IN  /\ result' = r.result
           /\ input_stack' = r.stack
    /\ gphase' = "returned"
    /\ UNCHANGED <<starting_rule, rules, tokens, pos, last, unreachable, added>>
    /\ UNCHANGED <<lexVars, matchVars, laterVars>>


\* No call of Rule::matches made yet.
MatchNew ==
    /\ mrule = NoRule
    /\ mrhs = <<>>
    /\ mresult = FALSE

\* Rules and candidate sequences Rule::matches is called with.
Schemas ==
    {Terminating("is_a"), Terminating("is_b"), Nonterminating(S), Nonterminating(T)}

RECURSIVE RuleOf(_, _)
RuleOf(rule, schemas) ==
    IF schemas = <<>> THEN rule
    ELSE RuleOf(IF Head(schemas).kind = "Terminating"
                THEN add_terminating_symbol(rule, Head(schemas).func)
                ELSE add_nonterminating_symbol(rule, Head(schemas).id),
                Tail(schemas))

MatchRules == {RuleOf(RuleNew(S), rhs) : rhs \in SeqsUpTo(Schemas, MaxRhs)}

CandidateNodes ==
    {Leaf("A"), Leaf("B"), Node(S, <<>>), Node(T, <<>>), Node(S, <<Leaf("A")>>)}

Candidates == SeqsUpTo(CandidateNodes, MaxCands)

\* rule.matches(rhs), one call in a behaviour
MatchesCall ==
    /\ mrule = NoRule
    /\ \E rule \in MatchRules : \E rhs \in Candidates :
          /\ mrule' = rule
          /\ mrhs' = rhs
          /\ mresult' = Matches(rule, rhs)
    /\ UNCHANGED <<lexVars, gramVars, laterVars>>

(***************************************************************************)
(* Building one Rule: Rule::new, then add_*_symbol calls                   *)
(***************************************************************************)
\* No rule is under construction.
NoRuleBuilt ==
    /\ built_rule = NoRule
    /\ rule_calls = <<>>

(***************************************************************************)
(* The identifier service (src/src/parser/rule/id.rs)                      *)
(***************************************************************************)
Threads == 1..MaxThreads

fetch_add_lost(counter, val) ==
    \* bug: the old value is returned but the sum is not stored
    [old |-> counter, new |-> counter]

\* AtomicUsize::fetch_add: one atomic read-modify-write
fetch_add(counter, val) == [old |-> counter, new |-> counter + val]

IdGeneratorNewShared(scope) ==
    \* bug: every generator gets scope 0
    [id |-> 0, idx |-> 0]

\* IdGenerator::new, given what fetch_add returned
IdGeneratorNew(scope) == [id |-> scope, idx |-> 0]

IdGeneratorIdStuck(generator) ==
    \* bug: idx is not advanced
    [generator |-> generator, value |-> Id(generator.id, generator.idx)]

IdGeneratorIdFromOne(generator) ==
    \* bug: the Id carries idx after the increment
    [generator |-> [generator EXCEPT !.idx = @ + 1],
     value |-> Id(generator.id, generator.idx + 1)]

\* IdGenerator::id: the generator after the call and the Id returned
IdGeneratorId(generator) ==
    [generator |-> [generator EXCEPT !.idx = @ + 1],
     value |-> Id(generator.id, generator.idx)]

\* No generator was created yet.
NoGenerators ==
    /\ GEN_ID = 0
    /\ generators = <<>>
    /\ issued = <<>>
    /\ creating = [t \in Threads |-> [pc |-> "idle", fetched |-> 0]]

Fetched == {t \in Threads : creating[t].pc = "fetched"}

\* IdGenerator::new on thread t: GEN_ID.fetch_add(1, Relaxed)
NewFetch(t) ==
    /\ creating[t].pc = "idle"
    /\ Len(generators) + Cardinality(Fetched) < MaxGenerators
    /\ LET r == fetch_add(GEN_ID, 1)
       IN  /\ GEN_ID' = r.new
           /\ creating' = [creating EXCEPT ![t] = [pc |-> "fetched", fetched |-> r.old]]
    /\ UNCHANGED <<generators, issued>>
    /\ UNCHANGED <<lexVars, gramVars, matchVars, ruleVars, sharedVars, recogVars, relopVars, convVars>>

\* IdGenerator::new on thread t: the struct is built and returned
NewReturn(t) ==
    /\ creating[t].pc = "fetched"
    /\ generators' = Append(generators, IdGeneratorNew(creating[t].fetched))
    /\ creating' = [creating EXCEPT ![t] = [pc |-> "idle", fetched |-> 0]]
    /\ UNCHANGED <<GEN_ID, issued>>
    /\ UNCHANGED <<lexVars, gramVars, matchVars, ruleVars, sharedVars, recogVars, relopVars, convVars>>

\* generator.id() on the g-th generator created
IssueId(g) ==
    /\ Len(issued) < MaxIssued
    /\ LET r == IdGeneratorId(generators[g])
       IN  /\ generators' = [generators EXCEPT ![g] = r.generator]
           /\ issued' = Append(issued, [gen |-> g, value |-> r.value])
    /\ UNCHANGED <<GEN_ID, creating>>
    /\ UNCHANGED <<lexVars, gramVars, matchVars, ruleVars, sharedVars, recogVars, relopVars, convVars>>

(***************************************************************************)
(* One Grammar, several Grammar::parse calls (src/src/grammar/grammar.rs)  *)
(***************************************************************************)
\* The two callers of parse.
Callers == {1, 2}

NoGrammar == [default_rule |-> NoRule, rules |-> <<>>, id_generator |-> IdGeneratorNew(0)]

IdleCall ==
    [phase |-> "idle", tokens |-> <<>>, pos |-> 0, stack |-> <<>>,
     result |-> NoTree, again |-> FALSE]

NoSharedGrammar ==
    /\ shared = NoGrammar
    /\ parses = [c \in Callers |-> IdleCall]

\* The rules the shared grammars are made of, over the two ids the builder
\* issued.
SharedPool(s, t) ==
    { Rule2(s, "is_a", "is_a"),                       \* S -> a a
      Rule2(t, "is_b", "is_a"),                       \* T -> b a
      add_nonterminating_symbol(RuleNew(t), s) }      \* T -> S

RECURSIVE AddRules(_, _)
AddRules(builder, rs) ==
    IF rs = <<>> THEN builder
    ELSE AddRules(add_rule(builder, Head(rs)), Tail(rs))

\* GrammarBuilder::new (its IdGenerator::new takes the next scope from
\* GEN_ID), id() twice, add_rule for every rule, build
ShareGrammar ==
    /\ shared = NoGrammar
    /\ LET scope == fetch_add(GEN_ID, 1)
           first == IdGeneratorId(IdGeneratorNew(scope.old))
           second == IdGeneratorId(first.generator)
       IN  /\ GEN_ID' = scope.new
           /\ \E rs \in SeqsUpTo(SharedPool(first.value, second.value), MaxSharedRules) :
                 \* a rule is added once
                 /\ \A i, j \in DOMAIN rs : rs[i] = rs[j] => i = j
                 /\ LET built == build(AddRules([starting_rule |-> NoRule,
                                                  rules |-> <<>>], rs))
                    IN  /\ built.some
                        /\ shared' = [default_rule |-> built.default_rule,
                                      rules |-> built.rules,
                                      id_generator |-> second.generator]
    /\ UNCHANGED <<parses, generators, issued, creating>>
    /\ UNCHANGED <<lexVars, gramVars, matchVars, ruleVars, recogVars, relopVars, convVars>>

CallStackKept(left_behind, default_rule) ==
    \* bug: the working stack outlives the call
    left_behind

\* let mut input_stack = Vec::new(): the stack a call starts with, whatever
\* an earlier call of the same caller left behind
CallStack(left_behind, default_rule) == NewStack(default_rule)

OwnStackOfFirst(c) ==
    \* bug: one working stack for all callers
    parses[1].stack

\* input_stack is a local of the call
OwnStack(c) == parses[c].stack

\* Grammar::parse by caller c, up to the for loop
SharedParseCall(c) ==
    /\ shared # NoGrammar
    /\ parses[c].phase \in {"idle", "returned"}
    /\ \E input \in SeqsUpTo(MockLangToken, MaxSharedTokens) :
          parses' = [parses EXCEPT ![c] =
                        [phase |-> "parsing", tokens |-> input, pos |-> 0,
                         stack |-> CallStack(parses[c].stack, shared.default_rule),
                         result |-> NoTree,
                         again |-> (parses[c].phase = "returned")]]
    /\ UNCHANGED shared
    /\ UNCHANGED <<lexVars, gramVars, matchVars, ruleVars, idVars, recogVars, relopVars, convVars>>

\* Grammar::parse by caller c, one iteration of the for loop
SharedParseStep(c) ==
    /\ parses[c].phase = "parsing"
    /\ parses[c].pos < Len(parses[c].tokens)
    /\ LET it == ParseToken(GrammarRules(shared.default_rule, shared.rules),
                            OwnStack(c), parses[c].tokens[parses[c].pos + 1])
       IN  parses' = [parses EXCEPT ![c].stack = it.stack, ![c].pos = @ + 1]
    /\ UNCHANGED shared
    /\ UNCHANGED <<lexVars, gramVars, matchVars, ruleVars, idVars, recogVars, relopVars, convVars>>

\* Grammar::parse by caller c, after the for loop
SharedParseReturn(c) ==
    /\ parses[c].phase = "parsing"
    /\ parses[c].pos = Len(parses[c].tokens)
    /\ LET r == PopResult(OwnStack(c))
       IN  parses' = [parses EXCEPT ![c].phase = "returned",
                                   ![c].result = r.result,
                                   ![c].stack = r.stack]
    /\ UNCHANGED shared
    /\ UNCHANGED <<lexVars, gramVars, matchVars, ruleVars, idVars, recogVars, relopVars, convVars>>

(***************************************************************************)
(* One recognizer called on its own with one stream                        *)
(***************************************************************************)
NoParts == [lead |-> <<>>, word |-> <<>>, trail |-> <<>>]

NoRecognizerCalled ==
    /\ rkind = "none"
    /\ rparts = NoParts
    /\ rstream = <<>>
    /\ rresult = TokenIgnored

\* Streams for the string recognizer: quotes, a letter, a space and a
\* character two bytes wide.
StringTexts == SeqsUpTo({"\"", "a", " ", "e'"}, MaxStringLen)

\* StringLexerModule().parse_stream(stream)
StringCall ==
    /\ rkind = "none"
    /\ \E stream \in StringTexts :
          /\ rstream' = stream
          /\ rresult' = StringLexerModule(stream)
    /\ rkind' = "string"
    /\ UNCHANGED rparts
    /\ UNCHANGED <<lexVars, gramVars, matchVars, ruleVars, idVars, sharedVars, relopVars, convVars>>

\* A spelling in upper case, and with its first letter only in upper case.
to_ascii_uppercase(c) ==
    IF Among(LowerCase, c) THEN UpperCase[IndexIn(LowerCase, c)] ELSE c

Upper(word) == [i \in DOMAIN word |-> to_ascii_uppercase(word[i])]

Capitalised(word) ==
    [i \in DOMAIN word |-> IF i = 1 THEN to_ascii_uppercase(word[i]) ELSE word[i]]

\* First words: every keyword in three spellings, and words that are none.
Words ==
    UNION { {KeywordSpellings[i].spelling,
             Upper(KeywordSpellings[i].spelling),
             Capitalised(KeywordSpellings[i].spelling)} : i \in DOMAIN KeywordSpellings }
    \cup { <<"x">>, <<"p", "r", "i">>, <<"p", "r", "i", "n", "t", "x">>,
           <<"1", "0">>, <<"e", "n", "d", "\"">>, <<"i", "f", "1">> }

\* What may follow the first word: nothing, or text that starts with
\* whitespace.
Trails ==
    { <<>>, <<"\n">>, <<" ", "x">>, <<" ", "r", "u", "n">>, <<"\t", "\n">>,
      <<"\r", "\n">>, <<"\f">>, <<"U+2003", "x">>, <<"U+00A0", "U+1F600">> }

Leads == SeqsUpTo({" ", "\n", "\r"}, MaxLead)

\* KeywordLexerModule().parse_stream(stream)
KeywordCall ==
    /\ rkind = "none"
    /\ \E lead \in Leads, word \in Words \cup {<<>>}, trail \in Trails :
          /\ word = <<>> => trail = <<>>
          /\ rparts' = [lead |-> lead, word |-> word, trail |-> trail]
          /\ rstream' = lead \o word \o trail
          /\ rresult' = KeywordLexerModule(lead \o word \o trail)
    /\ rkind' = "keyword"
    /\ UNCHANGED <<lexVars, gramVars, matchVars, ruleVars, idVars, sharedVars, relopVars, convVars>>

\* Streams for the number recognizer: the short ones, and runs of digits
\* around usize::MAX with a letter behind them.
LongNumbers ==
    { UsizeMax, <<"0", "0">> \o UsizeMax,
      SubSeq(UsizeMax, 1, 19) \o <<"6">>, <<"0">> \o SubSeq(UsizeMax, 1, 19) \o <<"6">>,
      SubSeq(UsizeMax, 1, 19), UsizeMax \o <<"0">>,
      <<"4", "2", "9", "4", "9", "6", "7", "2", "9", "6">> }

NumberTexts ==
    SeqsUpTo({"0", "1", "9", "a", " "}, MaxNumberLen)
    \cup {number \o <<"a">> : number \in LongNumbers} \cup {UsizeMax}

\* NumberLexerModule().parse_stream(stream)
NumberCall ==
    /\ rkind = "none"
    /\ \E stream \in NumberTexts :
          /\ rstream' = stream
          /\ rresult' = NumberLexerModule(stream)
    /\ rkind' = "number"
    /\ UNCHANGED rparts
    /\ UNCHANGED <<lexVars, gramVars, matchVars, ruleVars, idVars, sharedVars, relopVars, convVars>>

(***************************************************************************)
(* RelOpSymbol::try_from(&[Symbol]) (src/src/lang/ast.rs)                  *)
(***************************************************************************)
\* enum Symbol
Symbols ==
    {"LessThanSign", "GreaterThanSign", "EqualsSign", "Plus", "Minus", "Times",
     "Divide", "Comma"}

RelOpOk(relop) == [called |-> TRUE, ok |-> TRUE, relop |-> relop]
RelOpErr == [called |-> TRUE, ok |-> FALSE, relop |-> "-"]
RelOpNotCalled == [called |-> FALSE, ok |-> FALSE, relop |-> "-"]

\* impl TryFrom<&[Symbol]> for RelOpSymbol
RelOpTryFrom(value) ==
    CASE value = <<"LessThanSign">> -> RelOpOk("LessThan")
      [] value = <<"LessThanSign", "EqualsSign">> -> RelOpOk("LessThanOrEqual")
      [] value = <<"EqualsSign">> -> RelOpOk("Equal")
      [] value = <<"GreaterThanSign">> -> RelOpOk("GreaterThan")
      [] value = <<"GreaterThanSign", "EqualsSign">> -> RelOpOk("GreaterThanOrEqual")
      [] OTHER -> RelOpErr

\* impl TryFrom<&[Token]> for RelOpSymbol: every token must be a Symbol
RelOpTryFromTokens(value) ==
    IF \E i \in DOMAIN value : \A sym \in Symbols : value[i] # SymbolToken(sym)
    THEN RelOpErr
    ELSE RelOpTryFrom([i \in DOMAIN value |->
                          CHOOSE sym \in Symbols : value[i] = SymbolToken(sym)])

\* impl ParseGrammarTree for RelOpSymbol: parse(from)
RelOpSymbolParse(from) ==
    IF from.kind = "Leaf" THEN RelOpErr
    ELSE IF \E i \in DOMAIN from.children : from.children[i].kind # "Leaf"
    THEN RelOpErr
    ELSE RelOpTryFromTokens([i \in DOMAIN from.children |-> from.children[i].token])

\* RelOpSymbol::parse(tree) on the tree Grammar::parse returned
RelOpSymbolParseCall ==
    /\ gphase = "returned"
    /\ result.some
    /\ conv_kind = "none"
    /\ conv_kind' = "relop"
    /\ conv_input' = result.tree
    /\ conv_result' = RelOpSymbolParse(result.tree)
    /\ UNCHANGED <<lexVars, gramVars, matchVars, ruleVars, idVars, sharedVars, recogVars, relopVars>>

NoRelOpCalled ==
    /\ relop_value = <<>>
    /\ relop_result = RelOpNotCalled

\* RelOpSymbol::try_from(value)
RelOpCall ==
    /\ ~relop_result.called
    /\ \E value \in SeqsUpTo(Symbols, MaxRelOpLen) :
          /\ relop_value' = value
          /\ relop_result' = RelOpTryFrom(value)
    /\ UNCHANGED <<lexVars, gramVars, matchVars, ruleVars, idVars, sharedVars, recogVars, convVars>>

(***************************************************************************)
(* Variable::try_from(u8) (src/src/lang/ast.rs, src/src/lexer/token.rs)    *)
(***************************************************************************)
U8 == 0..255

VariableOk(value) == [ok |-> TRUE, value |-> value]
CharacterOutOfRange == [ok |-> FALSE, value |-> 0]

VariableTryFromU8UpperOnly(value) ==
    \* bug: a lower-case letter is measured from b'A' as well
    IF value \in 65..90 THEN VariableOk(value - 65)
    ELSE IF value \in 97..122 THEN VariableOk(value - 65)
    ELSE CharacterOutOfRange

\* impl TryFrom<u8> for Variable; b'A' = 65, b'Z' = 90, b'a' = 97, b'z' = 122
VariableTryFromU8(value) ==
    IF value \in 65..90 THEN VariableOk(value - 65)
    ELSE IF value \in 97..122 THEN VariableOk(value - 97)
    ELSE CharacterOutOfRange

NoConversionCalled ==
    /\ conv_kind = "none"
    /\ conv_input = 0
    /\ conv_result = CharacterOutOfRange

\* Variable::try_from(value)
VariableCall ==
    /\ conv_kind = "none"
    /\ \E value \in U8 :
          /\ conv_input' = value
          /\ conv_result' = VariableTryFromU8(value)
    /\ conv_kind' = "variable"
    /\ UNCHANGED <<lexVars, gramVars, matchVars, ruleVars, idVars, sharedVars, recogVars, relopVars>>

LaterNew ==
    /\ NoRuleBuilt /\ NoGenerators /\ NoSharedGrammar /\ NoRecognizerCalled
    /\ NoRelOpCalled /\ NoConversionCalled

NewCall(id) == [op |-> "new", func |-> "-", id |-> id]
TerminatingCall(func) == [op |-> "add_terminating_symbol", func |-> func, id |-> NoId]
NonterminatingCall(id) == [op |-> "add_nonterminating_symbol", func |-> "-", id |-> id]

\* Rule::new(input_symbol)
RuleNewCall ==
    /\ built_rule = NoRule
    /\ \E id \in {S, T} :
          /\ built_rule' = RuleNew(id)
          /\ rule_calls' = <<NewCall(id)>>
    /\ UNCHANGED <<lexVars, gramVars, matchVars, idVars, sharedVars, recogVars, relopVars, convVars>>

\* rule.add_terminating_symbol(recognizer)
AddTerminatingSymbol ==
    /\ built_rule # NoRule
    /\ Len(rule_calls) <= MaxSymbols
    /\ \E func \in {"is_a", "is_b"} :
          /\ built_rule' = add_terminating_symbol(built_rule, func)
          /\ rule_calls' = Append(rule_calls, TerminatingCall(func))
    /\ UNCHANGED <<lexVars, gramVars, matchVars, idVars, sharedVars, recogVars, relopVars, convVars>>

\* rule.add_nonterminating_symbol(symbol)
AddNonterminatingSymbol ==
    /\ built_rule # NoRule
    /\ Len(rule_calls) <= MaxSymbols
    /\ \E id \in {S, T} :
          /\ built_rule' = add_nonterminating_symbol(built_rule, id)
          /\ rule_calls' = Append(rule_calls, NonterminatingCall(id))
    /\ UNCHANGED <<lexVars, gramVars, matchVars, idVars, sharedVars, recogVars, relopVars, convVars>>

(***************************************************************************)
(* Actions of the lexical pipeline                                         *)
(***************************************************************************)
LexerNew ==
    /\ lphase = "builder"
    /\ lexer_modules = <<>>
    /\ input_stream = <<>>
    /\ items = <<>>
    /\ calls = <<>>
    /\ panicked = FALSE
    /\ source = <<>>

LexInit == LexerNew /\ GrammarNew /\ MatchNew /\ LaterNew

\* LexerBuilder::add_module
AddModule ==
    /\ lphase = "builder"
    /\ Len(lexer_modules) < MaxModules
    /\ lexer_modules' = Append(lexer_modules, "any")
    /\ UNCHANGED <<lphase, input_stream, items, calls, panicked, source>>
    /\ UNCHANGED <<gramVars, matchVars, laterVars>>

\* LexerBuilder::build(input_stream) followed by Lexer::into_iter
BuildLexer ==
    /\ lphase = "builder"
    /\ \E text \in Texts : input_stream' = text /\ source' = text
    /\ lphase' = "iter"
    /\ UNCHANGED <<lexer_modules, items, calls, panicked>>
    /\ UNCHANGED <<gramVars, matchVars, laterVars>>

\* Iterator::next for TokenIterator
IterNext ==
    /\ lphase = "iter"
    /\ ~panicked
    /\ Len(items) < MaxPulls
    /\ \E r \in ParseStream(lexer_modules, input_stream) :
          /\ input_stream' = r.stream
          /\ calls' = r.calls
          /\ panicked' = r.panicked
          /\ items' = IF r.panicked THEN items ELSE Append(items, r.item)
    /\ UNCHANGED <<lphase, lexer_modules, source>>
    /\ UNCHANGED <<gramVars, matchVars, laterVars>>

LexNext == AddModule \/ BuildLexer \/ IterNext

\* Iterator::next pulled for as long as the caller likes; items keeps the
\* latest MaxPulls items that were yielded.
IterNextForever ==
    /\ lphase = "iter"
    /\ ~panicked
    /\ \E r \in ParseStream(lexer_modules, input_stream) :
          /\ input_stream' = r.stream
          /\ calls' = r.calls
          /\ panicked' = r.panicked
          /\ items' = IF r.panicked THEN items
                      ELSE IF Len(items) < MaxPulls THEN Append(items, r.item)
                      ELSE Append(Tail(items), r.item)
    /\ UNCHANGED <<lphase, lexer_modules, source>>
    /\ UNCHANGED <<gramVars, matchVars, laterVars>>

LexLiveNext == AddModule \/ BuildLexer \/ IterNextForever

\* A caller that drains the iterator keeps pulling.
LexLiveSpec == LexInit /\ [][LexLiveNext]_vars /\ WF_vars(IterNextForever)

LexSpec == LexInit /\ [][LexNext]_vars

\* Program texts: a keyword on its own, and two lexemes with spaces between.
CLEAR == <<"C", "L", "E", "A", "R">>

Lexemes == {<<"1", "0">>, CLEAR, <<"r", "u", "n">>}

RECURSIVE Spaces(_)
Spaces(n) == IF n = 0 THEN <<>> ELSE <<" ">> \o Spaces(n - 1)

TwoLexemeTexts ==
    {first \o Spaces(n) \o second :
        first \in Lexemes, second \in Lexemes, n \in 1..MaxSpaces}

LangTexts == {CLEAR, CLEAR \o <<" ", "U+20AC">>} \cup TwoLexemeTexts

LangModules == {"keyword", "variable", "number"}

\* LexerBuilder::add_module with a recognizer of the language
AddLangModule ==
    /\ lphase = "builder"
    /\ Len(lexer_modules) < MaxModules
    /\ \E kind \in LangModules : lexer_modules' = Append(lexer_modules, kind)
    /\ UNCHANGED <<lphase, input_stream, items, calls, panicked, source>>
    /\ UNCHANGED <<gramVars, matchVars, laterVars>>

\* LexerBuilder::build(input_stream) with a program text, then into_iter
BuildLangLexer ==
    /\ lphase = "builder"
    /\ \E text \in LangTexts : input_stream' = text /\ source' = text
    /\ lphase' = "iter"
    /\ UNCHANGED <<lexer_modules, items, calls, panicked>>
    /\ UNCHANGED <<gramVars, matchVars, laterVars>>

\* Iterator::next on a program text
LangIterNext ==
    /\ lphase = "iter"
    /\ ~panicked
    /\ Len(items) < MaxLangPulls
    /\ \E r \in ParseStream(lexer_modules, input_stream) :
          /\ input_stream' = r.stream
          /\ calls' = r.calls
          /\ panicked' = r.panicked
          /\ items' = IF r.panicked THEN items ELSE Append(items, r.item)
    /\ UNCHANGED <<lphase, lexer_modules, source>>
    /\ UNCHANGED <<gramVars, matchVars, laterVars>>

LangNext == AddLangModule \/ BuildLangLexer \/ LangIterNext

\* create_lexer: the recognizers of Tiny BASIC, in this order
TinyBasicModules == <<"string", "keyword", "number", "variable", "symbol", "newline">>

RUN == <<"R", "U", "N">>

RECURSIVE LineFeeds(_)
LineFeeds(n) == IF n = 0 THEN <<>> ELSE <<"\n">> \o LineFeeds(n - 1)

\* Program texts of two lexemes with line feeds between them; a string
\* literal may hold a line feed of its own.
FirstLexemes == {CLEAR, <<"1", "0">>, <<"A">>, <<"\"", "a", "\n", "\"">>, <<",">>}

SecondLexemes ==
    {RUN, <<"p", "r", "i", "n", "t">>, <<"1", "0", " ">>, <<"A">>,
     <<"\"", "a", "\"">>, <<"<">>}

TwoLineTexts ==
    {first \o Spaces(k) \o LineFeeds(n) \o second :
        first \in FirstLexemes, second \in SecondLexemes,
        k \in 0..1, n \in 1..MaxLineFeeds}

\* create_lexer()
CreateLexer ==
    /\ lphase = "builder"
    /\ lexer_modules' = TinyBasicModules
    /\ lphase' = "lexer"
    /\ UNCHANGED <<input_stream, items, calls, panicked, source>>
    /\ UNCHANGED <<gramVars, matchVars, laterVars>>

\* lexer.parse_stream(input_stream) on the lexer create_lexer returned
TinyBasicParseStream ==
    /\ lphase = "lexer"
    /\ \E text \in TwoLineTexts : input_stream' = text /\ source' = text
    /\ lphase' = "iter"
    /\ UNCHANGED <<lexer_modules, items, calls, panicked>>
    /\ UNCHANGED <<gramVars, matchVars, laterVars>>

TinyBasicNext == CreateLexer \/ TinyBasicParseStream \/ LangIterNext

TinyBasicSpec == LexInit /\ [][TinyBasicNext]_vars

LangSpec == LexInit /\ [][LangNext]_vars

GramInit == LexerNew /\ GrammarNew /\ MatchNew /\ LaterNew

GramNext == AddRule \/ Build \/ ParseCall \/ ParseStep \/ ParseReturn

GramSpec == GramInit /\ [][GramNext]_vars

EmptyRuleNext == AddRuleOrEmptyRule \/ Build \/ ParseCall \/ ParseStep \/ ParseReturn

EmptyRuleSpec == GramInit /\ [][EmptyRuleNext]_vars

RelOpTreeNext ==
    \/ AddRelOpRule \/ Build \/ RelOpParseCall \/ ParseStep \/ ParseReturn
    \/ RelOpSymbolParseCall

RelOpTreeSpec == GramInit /\ [][RelOpTreeNext]_vars

LoopNext == AddLoopRule \/ Build \/ LoopParseCall \/ ParseStep \/ ParseReturn

\* A parse call that was entered keeps running: the for loop takes its next
\* iteration and the function returns after the loop.
LoopSpec ==
    GramInit /\ [][LoopNext]_vars /\ WF_vars(ParseStep) /\ WF_vars(ParseReturn)

MatchInit == LexerNew /\ GrammarNew /\ MatchNew /\ LaterNew

MatchNext == MatchesCall

MatchSpec == MatchInit /\ [][MatchNext]_vars

RuleInit == LexerNew /\ GrammarNew /\ MatchNew /\ LaterNew

RuleNext == RuleNewCall \/ AddTerminatingSymbol \/ AddNonterminatingSymbol

RuleSpec == RuleInit /\ [][RuleNext]_vars

IdInit == LexerNew /\ GrammarNew /\ MatchNew /\ LaterNew

IdNext ==
    \/ \E t \in Threads : NewFetch(t)
    \/ \E t \in Threads : NewReturn(t)
    \/ \E g \in DOMAIN generators : IssueId(g)

IdSpec == IdInit /\ [][IdNext]_vars

SharedInit == LexerNew /\ GrammarNew /\ MatchNew /\ LaterNew

SharedNext ==
    \/ ShareGrammar
    \/ \E c \in Callers : SharedParseCall(c)
    \/ \E c \in Callers : SharedParseStep(c)
    \/ \E c \in Callers : SharedParseReturn(c)

SharedSpec == SharedInit /\ [][SharedNext]_vars

RecogInit == LexerNew /\ GrammarNew /\ MatchNew /\ LaterNew

RecogNext == StringCall \/ KeywordCall \/ NumberCall

RecogSpec == RecogInit /\ [][RecogNext]_vars

RelOpInit == LexerNew /\ GrammarNew /\ MatchNew /\ LaterNew

RelOpNext == RelOpCall

RelOpSpec == RelOpInit /\ [][RelOpNext]_vars

VarInit == LexerNew /\ GrammarNew /\ MatchNew /\ LaterNew

VarNext == VariableCall

VarSpec == VarInit /\ [][VarNext]_vars

(***************************************************************************)
(* Properties of the lexical pipeline                                      *)
(***************************************************************************)
LastItem == items[Len(items)]

\* C1: once a pull has yielded an error, every later pull returns
\* end-of-sequence and consults no recognizer.
C1_FailedEndsIteration ==
    (\E i \in 1..(Len(items) - 1) : items[i].kind = "Err")
        => (LastItem = None /\ calls = <<>>)

\* The invocations the latest pull made at input position s.
CallsAt(s) == SelectSeq(calls, LAMBDA c : c.stream = s)

\* C2: at every input position the recognizers are tried in list order, each
\* at most once; all before the last one tried returned Ignored; the chain
\* stops at the first Success or Failed (or after the whole list returned
\* Ignored), and that recognizer's result is what the pull yields.
C2_FirstDecides ==
    \A s \in {calls[i].stream : i \in DOMAIN calls} :
        LET cs == CallsAt(s)
            decider == cs[Len(cs)]
        IN  /\ \A i \in DOMAIN cs : cs[i].module = i
            /\ \A i \in 1..(Len(cs) - 1) : cs[i].res = "TokenIgnored"
            /\ decider.res = "TokenIgnored" => Len(cs) = Len(lexer_modules)
            /\ decider.res # "TokenIgnored" =>
                  /\ calls[Len(calls)] = decider
                  /\ items # <<>>
                  /\ decider.res = "TokenFailed" => LastItem = SomeErr
                  /\ decider.res = "TokenSuccess" => LastItem = SomeOk(decider.token)

\* One pull in which both recognizers returned Ignored at the first position
\* and the first recognizer alone decided at the next one.
C2_Witness ==
    /\ Len(lexer_modules) = 2
    /\ Len(calls) = 3
    /\ calls[1].res = "TokenIgnored" /\ calls[2].res = "TokenIgnored"
    /\ calls[2].module = 2 /\ calls[2].stream = calls[1].stream
    /\ calls[3].module = 1 /\ calls[3].res = "TokenSuccess"
    /\ calls[3].stream # calls[1].stream

\* Every recognizer of the pipeline returned Ignored at the position of the
\* i-th invocation of the latest pull.
AllIgnoredAt(i) ==
    calls[i].module = Len(lexer_modules) /\ calls[i].res = "TokenIgnored"

\* C13: when every recognizer returned Ignored at a position, the pull goes on:
\* it drops one unit of input, yields nothing for it and consults the chain
\* again from its first recognizer at the next position (or ends the sequence
\* when nothing is left).
C13_AllIgnoredSkipsOne ==
    /\ ~panicked
    /\ \A i \in DOMAIN calls :
          AllIgnoredAt(i) =>
              IF i < Len(calls)
              THEN /\ calls[i + 1].stream = Tail(calls[i].stream)
                   /\ calls[i + 1].module = 1
              ELSE /\ input_stream = Tail(calls[i].stream)
                   /\ LastItem = None

\* C14: a pull in which a recognizer returned Success appends exactly that
\* recognizer's token to what was yielded before and leaves exactly the
\* remainder the recognizer supplied as the remaining input.
C14_SuccessYieldsTokenAndRemainder ==
    [][\A i \in DOMAIN calls' :
          calls'[i].res = "TokenSuccess" =>
              /\ i = Len(calls')
              /\ items' = Append(items, SomeOk(calls'[i].token))
              /\ input_stream' = calls'[i].remainder
              /\ ~panicked']_vars

\* Two pulls yielded two different tokens, the second from a recognizer that
\* consumed two characters and left one.
C14_Witness ==
    /\ Len(items) = 2
    /\ items[1].kind = "Ok" /\ items[2].kind = "Ok"
    /\ items[1].token # items[2].token
    /\ calls # <<>>
    /\ calls[Len(calls)].res = "TokenSuccess"
    /\ Len(calls[Len(calls)].stream) = 3
    /\ Len(input_stream) = 1

\* C15: a pull made when no input remains yields end-of-sequence, consults no
\* recognizer and leaves the input empty, so that every later pull does the
\* same.
C15_EmptyInputEndsForGood ==
    [][(lphase = "iter" /\ input_stream = <<>>) =>
          /\ items' = Append(items, None)
          /\ calls' = <<>>
          /\ input_stream' = <<>>
          /\ ~panicked']_vars

\* A token, then end-of-sequence twice, from a pipeline that has a recognizer.
C15_Witness ==
    /\ lexer_modules # <<>>
    /\ Len(items) = 3
    /\ items[1].kind = "Ok" /\ items[2] = None /\ items[3] = None
    /\ calls = <<>> /\ input_stream = <<>>

IsSuffix(s, t) == \E n \in 0..Len(t) : s = Drop(t, n)

\* Every Success among the invocations handed back a strict suffix of the
\* stream the recognizer was given.
StrictSuffixes(cs) ==
    \A i \in DOMAIN cs :
        cs[i].res = "TokenSuccess" =>
            (IsSuffix(cs[i].remainder, cs[i].stream)
             /\ Len(cs[i].remainder) < Len(cs[i].stream))

\* C37: with recognizers that return a strict suffix on Success, the
\* remaining input is always a suffix of the original text and never grows;
\* a pull that yields a token, or that skips an unclaimed unit, strictly
\* shortens it, and a pull that yields end-of-sequence leaves it empty.
C37_RemainingInputShrinks ==
    /\ [](StrictSuffixes(calls) => IsSuffix(input_stream, source))
    /\ [][(lphase = "iter" /\ StrictSuffixes(calls')) =>
            /\ IsSuffix(input_stream', input_stream)
            /\ (items' # items /\ items'[Len(items')].kind = "Ok") =>
                  Len(input_stream') < Len(input_stream)
            /\ (\E i \in DOMAIN calls' :
                    /\ calls'[i].module = Len(lexer_modules)
                    /\ calls'[i].res = "TokenIgnored"
                    /\ ~panicked') =>
                  Len(input_stream') < Len(calls'[1].stream)
            /\ (items' # items /\ items'[Len(items')] = None) =>
                  input_stream' = <<>>]_vars

\* The latest pull skipped a unit no recognizer claimed and then yielded a
\* token from a recognizer that consumed one character of two.
C37_Witness ==
    /\ Len(source) = 3
    /\ StrictSuffixes(calls)
    /\ \E i \in DOMAIN calls : AllIgnoredAt(i)
    /\ calls[Len(calls)].res = "TokenSuccess"
    /\ Len(calls[Len(calls)].stream) = 2
    /\ input_stream = calls[Len(calls)].remainder
    /\ Len(input_stream) = 1
    /\ LastItem.kind = "Ok"

\* C16: a caller that keeps pulling gets end-of-sequence after finitely many
\* pulls, whatever the text and whatever the recognizers return (a pull that
\* aborts the program ends the pulling as well).
C16_ReachesEndOfSequence ==
    (lphase = "iter") ~> (panicked \/ (items # <<>> /\ LastItem = None))

\* The items the pulls yielded so far are the given tokens, in order, then
\* end-of-sequence for every later pull.
YieldsExactly(toks) ==
    \A i \in DOMAIN items :
        items[i] = IF i <= Len(toks) THEN SomeOk(toks[i]) ELSE None

\* The pulls went past the end of the given tokens.
Drained(toks) == Len(items) > Len(toks)

\* C17: on "CLEAR" the keyword recognizer placed before the variable
\* recognizer yields the one token Keyword(Clear); the two in the other order
\* yield the five letters as variables and no keyword.
C17_OrderDecidesTokenClass ==
    source = CLEAR =>
        /\ lexer_modules = <<"keyword", "variable">> =>
              YieldsExactly(<<"Keyword(Clear)">>)
        /\ lexer_modules = <<"variable", "keyword">> =>
              YieldsExactly(<<"Variable(2)", "Variable(11)", "Variable(4)",
                              "Variable(0)", "Variable(17)">>)

\* The reversed pipeline was pulled to the end of "CLEAR".
C17_Witness ==
    /\ source = CLEAR
    /\ lexer_modules = <<"variable", "keyword">>
    /\ Len(items) = 6 /\ items[1].kind = "Ok" /\ items[6] = None

\* The token a lexeme of a program text stands for.
TokenOf(lexeme) ==
    CASE lexeme = <<"1", "0">> -> "Number(10)"
      [] lexeme = CLEAR -> "Keyword(Clear)"
      [] lexeme = <<"r", "u", "n">> -> "Keyword(Run)"

\* C18: a text of two lexemes with spaces between them, pulled through the
\* keyword and number recognizers, yields the two tokens in source order and
\* nothing else.
C18_TwoTokensNoSpaceToken ==
    \A first \in Lexemes, second \in Lexemes, n \in 1..MaxSpaces :
        (/\ source = first \o Spaces(n) \o second
         /\ lexer_modules = <<"keyword", "number">>) =>
            /\ YieldsExactly(<<TokenOf(first), TokenOf(second)>>)
            /\ ~panicked

\* The token a lexeme of a two-line text stands for.
LexemeToken(lexeme) ==
    CASE lexeme = CLEAR -> "Keyword(Clear)"
      [] lexeme = RUN -> "Keyword(Run)"
      [] lexeme = <<"p", "r", "i", "n", "t">> -> "Keyword(Print)"
      [] lexeme = <<"1", "0">> -> "Number(10)"
      [] lexeme = <<"1", "0", " ">> -> "Number(10)"
      [] lexeme = <<"A">> -> "Variable(0)"
      [] lexeme = <<"\"", "a", "\n", "\"">> -> "String(a\n)"
      [] lexeme = <<"\"", "a", "\"">> -> "String(a)"
      [] lexeme = <<",">> -> "Symbol(Comma)"
      [] lexeme = <<"<">> -> "Symbol(LessThanSign)"

NewLines(n) == [i \in 1..n |-> NewLine]

\* C38: in the Tiny BASIC pipeline every line feed outside a string literal
\* yields exactly one NewLine token, between the tokens of the text before it
\* and the tokens of the text after it.
C38_LineFeedYieldsNewLine ==
    \A first \in FirstLexemes, second \in SecondLexemes,
       k \in 0..1, n \in 1..MaxLineFeeds :
        (/\ lphase = "iter"
         /\ source = first \o Spaces(k) \o LineFeeds(n) \o second) =>
            /\ YieldsExactly(<<LexemeToken(first)>> \o NewLines(n)
                              \o <<LexemeToken(second)>>)
            /\ ~panicked

(***************************************************************************)
(* Properties of the grammar engine                                        *)
(***************************************************************************)
RECURSIVE Reverse(_)
Reverse(s) == IF s = <<>> THEN <<>> ELSE Append(Reverse(Tail(s)), Head(s))

RECURSIVE NodeCount(_)
NodeCount(trees) ==
    IF trees = <<>> THEN 0
    ELSE (IF Head(trees).kind = "Node"
          THEN 1 + NodeCount(Head(trees).children) ELSE 0)
         + NodeCount(Tail(trees))

Leaves(toks) == [i \in 1..Len(toks) |-> Leaf(toks[i])]

AllRules == {starting_rule} \cup {rules[j] : j \in DOMAIN rules}

AnyMatch(slice) == \E r \in AllRules : Matches(r, slice)

Iterated == gphase \in {"parsing", "returned"} /\ pos > 0

\* The stack after the latest iteration, and the stack before its shift.
After == last.stack
Shifted == last.shifted
Before == SubSeq(last.shifted, 1, Len(last.shifted) - 1)
TopOf(stack) == stack[Len(stack)]

\* The drop counts at which some rule matches the shifted stack.
MatchingDrops == {i \in 0..(Len(Shifted) - 1) : AnyMatch(Drop(Shifted, i))}

\* C3: after each shift the longest suffix of the stack that any rule matches
\* is the one reduced, whatever the order of the rules; with no matching
\* suffix nothing is reduced.
C3_LongestSuffixReduced ==
    Iterated =>
        IF MatchingDrops = {}
        THEN ~last.found
        ELSE LET d == CHOOSE i \in MatchingDrops : \A j \in MatchingDrops : i <= j
             IN  /\ last.found
                 /\ Len(After) = d + 1
                 /\ SubSeq(After, 1, d) = SubSeq(Shifted, 1, d)
                 /\ TopOf(After).kind = "Node"
                 /\ Len(TopOf(After).children) = Len(Shifted) - d

\* The default rule matches the top leaf alone, and a later rule won with a
\* longer suffix.
C3_Witness ==
    /\ Iterated /\ last.found
    /\ Matches(starting_rule, Drop(Shifted, Len(Shifted) - 1))
    /\ Len(TopOf(After).children) >= 2
    /\ rules # <<>>
    /\ TopOf(After).symbol = rules[1].input_symbol
    /\ rules[1].input_symbol # starting_rule.input_symbol

\* C4: among the rules that match the reduced suffix the default rule wins,
\* else the earliest added of the other rules; the new node carries the
\* winner's input Identifier.
C4_FirstRuleInOrderWins ==
    (Iterated /\ last.found) =>
        LET top == TopOf(After)
            slice == Reverse(top.children)
        IN  IF Matches(starting_rule, slice)
            THEN top.symbol = starting_rule.input_symbol
            ELSE \E j \in DOMAIN rules :
                    /\ Matches(rules[j], slice)
                    /\ \A k \in 1..(j - 1) : ~Matches(rules[k], slice)
                    /\ top.symbol = rules[j].input_symbol

\* The default rule does not match the reduced suffix and two later rules
\* with different input Identifiers do.
C4_Witness ==
    /\ Iterated /\ last.found /\ Len(rules) = 2
    /\ ~Matches(starting_rule, Reverse(TopOf(After).children))
    /\ Matches(rules[1], Reverse(TopOf(After).children))
    /\ Matches(rules[2], Reverse(TopOf(After).children))
    /\ rules[1].input_symbol # rules[2].input_symbol

\* C5: one iteration creates at most one node; with S -> a a, T -> S the
\* input [a, a] yields a node tagged S.
C5_AtMostOneReduction ==
    /\ Iterated => NodeCount(After) <= NodeCount(Before) + 1
    /\ (/\ gphase = "returned"
        /\ starting_rule = Rule2(S, "is_a", "is_a")
        /\ rules = <<add_nonterminating_symbol(RuleNew(T), S)>>
        /\ tokens = <<"A", "A">>)
            => (result.some /\ result.tree.kind = "Node" /\ result.tree.symbol = S)

\* A reduction was made and the node it pushed completes another rule.
C5_Witness ==
    /\ Iterated /\ last.found
    /\ AnyMatch(<<TopOf(After)>>)

\* C6: a reduction replaces the matched suffix, and nothing else, by one node
\* tagged with the rule's input Identifier whose children are the suffix in
\* reverse (pop) order.
C6_ReductionFrame ==
    (Iterated /\ last.found) =>
        \E d \in 0..(Len(Shifted) - 1) : \E r \in AllRules :
            /\ Matches(r, Drop(Shifted, d))
            /\ After = Append(SubSeq(Shifted, 1, d),
                              Node(r.input_symbol, Reverse(Drop(Shifted, d))))

\* A reduction of two different nodes above a node that stays.
C6_Witness ==
    /\ Iterated /\ last.found
    /\ Len(After) >= 2
    /\ Len(TopOf(After).children) = 2
    /\ TopOf(After).children[1] # TopOf(After).children[2]

\* C7: a grammar with the single rule S -> p1 ... pn and n tokens, token i
\* satisfying pi: at the end of input the stack holds exactly the node S over
\* the n leaves, and that node is the result.
SingleRuleCase ==
    LET rhs == starting_rule.replacement_symbols
    IN  /\ gphase \in {"parsing", "returned"}
        /\ rules = <<>>
        /\ Len(rhs) >= 1
        /\ Len(tokens) = Len(rhs)
        /\ \A i \in DOMAIN rhs :
              rhs[i].kind = "Terminating" /\ Recognize(rhs[i].func, tokens[i])

C7_SingleRuleGrammar ==
    SingleRuleCase =>
        LET root == Node(starting_rule.input_symbol, Reverse(Leaves(tokens)))
        IN  /\ (gphase = "parsing" /\ pos = Len(tokens)) => input_stack = <<root>>
            /\ gphase = "returned" => (result = SomeTree(root) /\ input_stack = <<>>)

C7_Witness ==
    SingleRuleCase /\ gphase = "returned" /\ Len(tokens) = 3 /\ result.some

\* C8: when no rule matches any suffix after a shift the stack stays as
\* shifted; on an input no rule ever matches the result is the leaf of the
\* last token and no node exists.
NeverMatches ==
    \A k \in 1..Len(tokens) : \A i \in 0..(k - 1) :
        ~AnyMatch(Leaves(SubSeq(tokens, i + 1, k)))

C8_NoMatchKeepsLeaf ==
    /\ (Iterated /\ MatchingDrops = {}) =>
          /\ After = Shifted
          /\ gphase = "parsing" => input_stack = Shifted
    /\ (gphase = "returned" /\ tokens # <<>> /\ NeverMatches) =>
          /\ result = SomeTree(Leaf(tokens[Len(tokens)]))
          /\ input_stack = Leaves(SubSeq(tokens, 1, Len(tokens) - 1))

C8_Witness ==
    gphase = "returned" /\ Len(tokens) >= 2 /\ NeverMatches /\ result.some

\* C9: an empty token sequence gives no tree, whatever the grammar.
C9_EmptyInputNone ==
    (gphase = "returned" /\ tokens = <<>>) => result = NoTree

C9_Witness ==
    gphase = "returned" /\ tokens = <<>> /\ rules # <<>>

\* C10: the result is the node on top of the stack at the end of input, also
\* when other nodes lie below it; with S -> a a the input [b, a, a] gives the
\* node S.
C10_ReturnsTopOfStack ==
    /\ (gphase = "returned" /\ tokens # <<>>) =>
          /\ result = SomeTree(TopOf(After))
          /\ input_stack = SubSeq(After, 1, Len(After) - 1)
    /\ (/\ gphase = "returned"
        /\ starting_rule = Rule2(S, "is_a", "is_a")
        /\ rules = <<>>
        /\ tokens = <<"B", "A", "A">>)
            => result = SomeTree(Node(S, <<Leaf("A"), Leaf("A")>>))

C10_Witness ==
    /\ gphase = "returned"
    /\ starting_rule = Rule2(S, "is_a", "is_a")
    /\ rules = <<>>
    /\ tokens = <<"B", "A", "A">>
    /\ After = <<Leaf("B"), Node(S, <<Leaf("A"), Leaf("A")>>)>>
    /\ result.some

\* C11: no reduction ever pops an empty stack, a parse call that has not
\* returned has its next iteration or its return to take, and it returns a
\* tree or None.
C11_ParseNeverFails ==
    /\ unreachable = FALSE
    /\ gphase = "parsing" => pos <= Len(tokens)
    /\ gphase = "returned" => (result = NoTree \/ result.some)

\* A reduction popped the whole stack, of two nodes or more, and parse returned.
C11_Witness ==
    /\ gphase = "returned" /\ pos > 0 /\ last.found
    /\ last.drop = 0 /\ Len(last.shifted) >= 2
    /\ result.some

\* The tokens of a tree, its children read from last to first, and the tokens
\* of a stack read from bottom to top.
RECURSIVE TokensOfTrees(_, _)
TokensOfTrees(trees, backwards) ==
    IF trees = <<>> THEN <<>>
    ELSE LET t == IF backwards THEN trees[Len(trees)] ELSE Head(trees)
             rest == IF backwards THEN SubSeq(trees, 1, Len(trees) - 1) ELSE Tail(trees)
         IN  (IF t.kind = "Leaf" THEN <<t.token>> ELSE TokensOfTrees(t.children, TRUE))
             \o TokensOfTrees(rest, backwards)

StackTokens(stack) == TokensOfTrees(stack, FALSE)

\* C33: while parse runs, the tokens of the working stack (bottom to top,
\* children of a Node from last to first) are exactly the tokens shifted so
\* far in input order, and an iteration shifts exactly the next input token.
C33_TokensConserved ==
    /\ []((gphase = "parsing" /\ ~unreachable) =>
            StackTokens(input_stack) = SubSeq(tokens, 1, pos))
    /\ [][(gphase = "parsing" /\ pos' # pos) =>
            /\ pos' = pos + 1
            /\ last'.shifted = Append(input_stack, Leaf(tokens[pos']))]_vars

\* Three tokens that differ have been shifted and the stack holds a Node
\* inside a Node.
C33_Witness ==
    /\ gphase = "parsing"
    /\ pos = 3
    /\ tokens[1] # tokens[2]
    /\ \E i \in DOMAIN input_stack :
          /\ input_stack[i].kind = "Node"
          /\ \E c \in DOMAIN input_stack[i].children :
                input_stack[i].children[c].kind = "Node"

\* Every Node of the trees, at any depth.
RECURSIVE NodesOf(_)
NodesOf(trees) ==
    IF trees = <<>> THEN {}
    ELSE (IF Head(trees).kind = "Node"
          THEN {Head(trees)} \cup NodesOf(Head(trees).children) ELSE {})
         \cup NodesOf(Tail(trees))

\* The rule's schemas accept the candidates position by position.
Justifies(r, candidates) ==
    /\ Len(r.replacement_symbols) = Len(candidates)
    /\ \A i \in DOMAIN candidates :
          LET schema == r.replacement_symbols[i]
              c == candidates[i]
          IN  \/ /\ schema.kind = "Terminating" /\ c.kind = "Leaf"
                 /\ Recognize(schema.func, c.token)
              \/ /\ schema.kind = "Nonterminating" /\ c.kind = "Node"
                 /\ schema.id = c.symbol

\* C34: every Node on the working stack, at any depth, carries the input
\* Identifier of a rule of the grammar that matches the node's children in
\* reverse list order, and has at least one child; a rule without
\* replacement symbols never fires.
C34_NodesJustifiedByRule ==
    /\ \A n \in NodesOf(input_stack) \cup NodesOf(last.stack) :
          /\ n.children # <<>>
          /\ \E r \in AllRules :
                /\ r.input_symbol = n.symbol
                /\ Justifies(r, Reverse(n.children))
    /\ (Iterated /\ last.found) =>
          GrammarRules(starting_rule, rules)[last.rule].replacement_symbols # <<>>

\* The rule without replacement symbols comes first in the grammar, and a
\* reduction by a later rule put a Node inside a Node.
C34_Witness ==
    /\ gphase = "parsing"
    /\ starting_rule = RuleNew(S)
    /\ last.found
    /\ \E n \in NodesOf(input_stack) :
          \E c \in DOMAIN n.children : n.children[c].kind = "Node"

\* C35: after k >= 1 tokens the working stack holds between 1 and k nodes;
\* parse returns a tree for every non-empty token sequence and None only for
\* the empty one.
C35_StackBetweenOneAndK ==
    /\ (gphase = "parsing" /\ pos >= 1) =>
          (Len(input_stack) >= 1 /\ Len(input_stack) <= pos)
    /\ Iterated => (Len(After) >= 1 /\ Len(After) <= pos)
    /\ gphase = "returned" => (result.some <=> tokens # <<>>)

\* Three tokens were processed and reductions left a single node.
C35_Witness ==
    /\ gphase = "parsing"
    /\ pos = 3
    /\ Len(input_stack) = 1
    /\ Len(last.shifted) = 2

\* C36: parse terminates on every token sequence for every grammar, also
\* with unit and self-referential rules: a call that was entered returns,
\* each iteration reads one token and makes at most one node, and the call
\* returns from the state in which all tokens were read.
C36_ParseTerminates ==
    /\ (gphase = "parsing") ~> (gphase = "returned")
    /\ [][gphase = "parsing" =>
            \/ /\ gphase' = "parsing"
               /\ pos' = pos + 1 /\ pos' <= Len(tokens)
               /\ NodeCount(input_stack') <= NodeCount(input_stack) + 1
            \/ /\ gphase' = "returned"
               /\ pos = Len(tokens)]_vars

\* With S -> a and S -> S a, a call on three tokens returned the tree
\* S(a, S(a, S(a))): the self-referential rule fired twice.
C36_Witness ==
    /\ gphase = "returned"
    /\ Len(tokens) = 3
    /\ result.some
    /\ result.tree.kind = "Node"
    /\ result.tree.symbol = S
    /\ Len(result.tree.children) = 2
    /\ result.tree.children[2].kind = "Node"
    /\ Len(result.tree.children[2].children) = 2
    /\ result.tree.children[2].children[2].symbol = S

(***************************************************************************)
(* Properties of Rule::matches                                             *)
(***************************************************************************)
MatchesCalled == mrule # NoRule

\* C12: matches returns true exactly when the candidates are as many as the
\* schemas and, position by position, a Terminating schema faces a Leaf whose
\* token satisfies its predicate or a Nonterminating schema faces a Node with
\* the schema's Identifier.
C12_MatchesIff ==
    MatchesCalled =>
        LET rhs == mrule.replacement_symbols
        IN  mresult <=>
              /\ Len(rhs) = Len(mrhs)
              /\ \A i \in 1..Min(Len(rhs), Len(mrhs)) :
                    \/ /\ rhs[i].kind = "Terminating"
                       /\ mrhs[i].kind = "Leaf"
                       /\ Recognize(rhs[i].func, mrhs[i].token)
                    \/ /\ rhs[i].kind = "Nonterminating"
                       /\ mrhs[i].kind = "Node"
                       /\ mrhs[i].symbol = rhs[i].id

\* A Terminating and a Nonterminating schema, both matched.
C12_Witness ==
    /\ MatchesCalled /\ mresult
    /\ Len(mrhs) = 2
    /\ mrhs[1].kind = "Leaf" /\ mrhs[2].kind = "Node"

(***************************************************************************)
(* Properties of GrammarBuilder                                            *)
(***************************************************************************)
\* C19: the first rule added is the starting (default) rule, the later ones
\* follow it, so that the rules the grammar iterates are the rules added, in
\* the order of the add_rule calls.
C19_RulesInAddedOrder ==
    /\ added = <<>> => (starting_rule = NoRule /\ rules = <<>>)
    /\ added # <<>> =>
          /\ starting_rule = added[1]
          /\ rules = Tail(added)
          /\ GrammarRules(starting_rule, rules) = added

\* A grammar built from three rules, the first two different.
C19_Witness ==
    /\ gphase = "built"
    /\ Len(added) = 3
    /\ added[1] # added[2]

Built == gphase \in {"built", "parsing", "returned"}

\* C20: build gives no grammar exactly when no rule was added; a grammar it
\* gives holds every rule that was added, at least one.
C20_BuildNoneIffNoRule ==
    /\ gphase = "nogrammar" => added = <<>>
    /\ Built =>
          /\ added # <<>>
          /\ Len(GrammarRules(starting_rule, rules)) >= 1
          /\ \A i \in DOMAIN added :
                \E j \in DOMAIN GrammarRules(starting_rule, rules) :
                    GrammarRules(starting_rule, rules)[j] = added[i]

\* build was called on a builder that was given no rule.
C20_Witness ==
    gphase = "nogrammar" /\ added = <<>> /\ starting_rule = NoRule

(***************************************************************************)
(* Properties of the rule builder                                          *)
(***************************************************************************)
\* C21: the right-hand side of a rule under construction has one schema per
\* add call, of that call's kind and with that call's argument, in call
\* order, and the input Identifier is the one given to Rule::new.
C21_RuleBuilderAppendOnly ==
    built_rule # NoRule =>
        LET rhs == built_rule.replacement_symbols
        IN  /\ built_rule.input_symbol = rule_calls[1].id
            /\ Len(rhs) = Len(rule_calls) - 1
            /\ \A i \in DOMAIN rhs :
                  IF rule_calls[i + 1].op = "add_terminating_symbol"
                  THEN rhs[i].kind = "Terminating" /\ rhs[i].func = rule_calls[i + 1].func
                  ELSE rhs[i].kind = "Nonterminating" /\ rhs[i].id = rule_calls[i + 1].id

\* Three symbols were added, of both kinds, the first two with different
\* arguments of one kind.
C21_Witness ==
    /\ Len(rule_calls) = 4
    /\ rule_calls[2].op = "add_terminating_symbol"
    /\ rule_calls[3].op = "add_terminating_symbol"
    /\ rule_calls[2].func # rule_calls[3].func
    /\ rule_calls[4].op = "add_nonterminating_symbol"

(***************************************************************************)
(* Properties of the identifier service                                    *)
(***************************************************************************)
\* C22: two Identifiers issued by one generator are equal exactly when they
\* are the result of one and the same id() call.
C22_SameGeneratorEqualIffSameCall ==
    \A i \in DOMAIN issued, j \in DOMAIN issued :
        issued[i].gen = issued[j].gen =>
            (issued[i].value = issued[j].value <=> i = j)

\* One generator issued three Identifiers.
C22_Witness ==
    \E g \in DOMAIN generators :
        Cardinality({i \in DOMAIN issued : issued[i].gen = g}) = 3

\* C23: Identifiers issued by two different generators are never equal.
C23_DistinctGeneratorsNeverEqual ==
    \A i \in DOMAIN issued, j \in DOMAIN issued :
        issued[i].gen # issued[j].gen => issued[i].value # issued[j].value

\* Three generators, two of which issued Identifiers with the same
\* sequence-number.
C23_Witness ==
    /\ Len(generators) = 3
    /\ \E i \in DOMAIN issued, j \in DOMAIN issued :
          /\ issued[i].gen # issued[j].gen
          /\ issued[i].value.id = issued[j].value.id
          /\ issued[i].value.id = 1

\* C24: however the new calls of the threads interleave, the counter has
\* advanced by one per creation and no two creations got the same scope.
C24_AtomicScopeCounter ==
    /\ GEN_ID = Len(generators) + Cardinality(Fetched)
    /\ \A i \in DOMAIN generators, j \in DOMAIN generators :
          i # j => generators[i].id # generators[j].id
    /\ \A t \in Fetched, u \in Fetched :
          t # u => creating[t].fetched # creating[u].fetched
    /\ \A t \in Fetched, i \in DOMAIN generators :
          creating[t].fetched # generators[i].id

\* Two threads had fetched at the same time and the second to fetch was the
\* first to return.
C24_Witness ==
    /\ Len(generators) = 2
    /\ generators[1].id = 1 /\ generators[2].id = 0

\* How many of the first i issuances came from the generator of the i-th.
IssuanceNumber(i) ==
    Cardinality({j \in 1..i : issued[j].gen = issued[i].gen})

\* C32: the k-th id() call of a generator returns sequence-number k-1 with
\* the generator's scope, and a generator's scope never changes once it is
\* created.
C32_SequenceNumbersCountFromZero ==
    /\ [](\A i \in DOMAIN issued :
            issued[i].value =
                Id(generators[issued[i].gen].id, IssuanceNumber(i) - 1))
    /\ [][\A g \in DOMAIN generators : generators'[g].id = generators[g].id]_vars

\* One generator issued its third Identifier after another generator had
\* issued one in between.
C32_Witness ==
    \E i \in DOMAIN issued, j \in DOMAIN issued :
        /\ j < i
        /\ issued[j].gen # issued[i].gen
        /\ IssuanceNumber(i) = 3
        /\ issued[i].value.id = 2
        /\ issued[1].gen = issued[i].gen /\ issued[1].value.id = 0

(***************************************************************************)
(* Properties of parse calls on one grammar                                *)
(***************************************************************************)
\* The working stack of a parse call that runs alone on a fresh grammar,
\* after the given tokens.
RECURSIVE ParseFrom(_, _, _)
ParseFrom(rs, stack, toks) ==
    IF toks = <<>> THEN stack
    ELSE ParseFrom(rs, ParseToken(rs, stack, Head(toks)).stack, Tail(toks))

StackAlone(g, toks) == ParseFrom(GrammarRules(g.default_rule, g.rules), <<>>, toks)

\* What that call returns.
ParseAlone(g, toks) == PopResult(StackAlone(g, toks)).result

\* C25: no step of a parse call changes the grammar (rules, their order,
\* identifier generator), and every call of a sequence of calls on it returns
\* what a call alone on a fresh identical grammar returns for its input.
C25_ReuseSameAsFresh ==
    /\ [](\A c \in Callers :
            parses[c].phase = "returned" =>
                parses[c].result = ParseAlone(shared, parses[c].tokens))
    /\ [][shared # NoGrammar => shared' = shared]_vars

\* A second call of one caller returned a leaf for [a] after its first call,
\* on [a, b], had left a node behind on its stack.
C25_Witness ==
    \E c \in Callers :
        /\ parses[c].again
        /\ parses[c].phase = "returned"
        /\ parses[c].tokens = <<"A">>
        /\ parses[c].result = SomeTree(Leaf("A"))
        /\ shared.default_rule = Rule2(S, "is_a", "is_a")

\* C26: with the steps of two calls on one grammar interleaved in any order,
\* the working stack of each call is at every step the stack it has when it
\* runs alone, each returns what it returns alone, and a step of one call
\* changes neither the other call nor the grammar.
C26_InterleavedCallsIndependent ==
    /\ [](\A c \in Callers :
            /\ parses[c].phase = "parsing" =>
                  parses[c].stack =
                      StackAlone(shared, SubSeq(parses[c].tokens, 1, parses[c].pos))
            /\ parses[c].phase = "returned" =>
                  /\ parses[c].result = PopResult(StackAlone(shared, parses[c].tokens)).result
                  /\ parses[c].stack = PopResult(StackAlone(shared, parses[c].tokens)).stack)
    /\ [][\A c \in Callers, d \in Callers :
            (c # d /\ parses'[c] # parses[c]) =>
                (parses'[d] = parses[d] /\ shared' = shared)]_vars

\* Both calls are under way on different inputs, each with a reduction made.
C26_Witness ==
    /\ parses[1].phase = "parsing" /\ parses[2].phase = "parsing"
    /\ parses[1].pos = 2 /\ parses[2].pos = 2
    /\ parses[1].tokens # parses[2].tokens
    /\ Len(parses[1].stack) = 1 /\ Len(parses[2].stack) = 1

(***************************************************************************)
(* Properties of the recognizers                                           *)
(***************************************************************************)
\* The positions of the stream, after the first, that hold a double quote.
LaterQuotes == {i \in 2..Len(rstream) : rstream[i] = "\""}

\* C27: the string recognizer returns Ignored on a stream that does not
\* start with a double quote; Success with the characters between the first
\* two quotes as the token and what follows the second quote as the
\* remainder when there is a later quote; Failed when there is none.
C27_StringTriState ==
    rkind = "string" =>
        IF rstream = <<>> \/ rstream[1] # "\""
        THEN rresult.res = "TokenIgnored"
        ELSE IF LaterQuotes # {}
        THEN LET close == CHOOSE i \in LaterQuotes : \A j \in LaterQuotes : i <= j
             IN  /\ rresult.res = "TokenSuccess"
                 /\ rresult.token = StringToken(SubSeq(rstream, 2, close - 1))
                 /\ rresult.remainder = SubSeq(rstream, close + 1, Len(rstream))
        ELSE rresult.res = "TokenFailed"

\* A string of one wide character, with one character left after the closing
\* quote.
C27_Witness ==
    /\ rkind = "string"
    /\ rstream = <<"\"", "e'", "\"", "a">>
    /\ rresult.res = "TokenSuccess"
    /\ rresult.remainder = <<"a">>

\* The keyword a word spells, ignoring ASCII case; "-" when it spells none.
LowerOf(word) == [i \in DOMAIN word |-> to_ascii_lowercase(word[i])]

SpelledKeyword(word) ==
    IF \E i \in DOMAIN KeywordSpellings : KeywordSpellings[i].spelling = LowerOf(word)
    THEN KeywordSpellings[CHOOSE i \in DOMAIN KeywordSpellings :
                             KeywordSpellings[i].spelling = LowerOf(word)].keyword
    ELSE "-"

\* C28: the keyword recognizer returns Success exactly when the first
\* whitespace-delimited word of the stream spells a keyword, ignoring ASCII
\* case; the token is that keyword and the remainder is what follows the
\* word. In every other case it returns Ignored.
C28_KeywordFirstWord ==
    rkind = "keyword" =>
        IF SpelledKeyword(rparts.word) # "-"
        THEN /\ rresult.res = "TokenSuccess"
             /\ rresult.token = KeywordToken(SpelledKeyword(rparts.word))
             /\ rresult.remainder = rparts.trail
        ELSE rresult.res = "TokenIgnored"

\* GOSUB in upper case after a newline, with a tab and a newline behind it.
C28_Witness ==
    /\ rkind = "keyword"
    /\ rparts = [lead |-> <<"\n">>, word |-> <<"G", "O", "S", "U", "B">>,
                 trail |-> <<"\t", "\n">>]
    /\ rresult.res = "TokenSuccess"
    /\ rresult.token = "Keyword(GoSub)"

\* The length of the longest run of digits the stream starts with.
RECURSIVE DigitRun(_)
DigitRun(stream) ==
    IF stream = <<>> \/ ~is_ascii_digit(Head(stream)) THEN 0
    ELSE 1 + DigitRun(Tail(stream))

\* The decimal value of a run of digits, in digits: the run from its first
\* digit that is not a zero on, 0 for a run of zeros.
DecimalValue(digits) ==
    LET significant == {i \in DOMAIN digits : digits[i] # "0"}
    IN  IF significant = {} THEN <<"0">>
        ELSE SubSeq(digits, CHOOSE i \in significant : \A j \in significant : i <= j,
                    Len(digits))

\* C29: on a stream that starts with a digit the number recognizer returns
\* Success with the decimal value of the longest leading run of digits and
\* the remainder right after the run, whether or not anything follows the
\* run; on any other stream it returns Ignored.
C29_NumberLeadingDigits ==
    rkind = "number" =>
        LET run == DigitRun(rstream)
        IN  IF run > 0
            THEN /\ rresult.res = "TokenSuccess"
                 /\ rresult.token = NumberToken(DecimalValue(SubSeq(rstream, 1, run)))
                 /\ rresult.remainder = Drop(rstream, run)
            ELSE rresult.res = "TokenIgnored"

(***************************************************************************)
(* Properties of RelOpSymbol                                               *)
(***************************************************************************)
\* relop ::= < (>|=|e) | > (<|=|e) | =
DocumentedRelOps ==
    { <<"LessThanSign">>, <<"LessThanSign", "GreaterThanSign">>,
      <<"LessThanSign", "EqualsSign">>,
      <<"GreaterThanSign">>, <<"GreaterThanSign", "LessThanSign">>,
      <<"GreaterThanSign", "EqualsSign">>,
      <<"EqualsSign">> }

\* C30: try_from accepts exactly the symbol sequences of the documented
\* relop grammar and returns an error for every other sequence.
C30_RelOpAcceptsDocumentedGrammar ==
    relop_result.called => (relop_result.ok <=> relop_value \in DocumentedRelOps)

(***************************************************************************)
(* Properties of Variable::try_from(u8)                                    *)
(***************************************************************************)
\* C31: Variable::try_from(u8) succeeds exactly on the ASCII letters; the
\* value is the letter's zero-based alphabet index in 0..25, the same for the
\* upper-case and the lower-case letter; every other byte gives
\* CharacterOutOfRange.
C31_VariableFromLetter ==
    conv_kind = "variable" =>
        LET letter == conv_input \in (65..90) \cup (97..122)
        IN  /\ conv_result.ok <=> letter
            /\ letter =>
                  /\ conv_result.value \in 0..25
                  /\ conv_result.value = (conv_input % 32) - 1
            /\ ~letter => conv_result = CharacterOutOfRange

C31_Witness ==
    /\ conv_kind = "variable"
    /\ conv_input = 122
    /\ conv_result = VariableOk(25)

(***************************************************************************)
(* Properties of RelOpSymbol::parse on a parsed tree                       *)
(***************************************************************************)
\* C39: with the rule relop -> '<' '=' the tree Grammar::parse returns for
\* [Symbol(<), Symbol(=)] converts to LessThanOrEqual; in general the
\* converter receives the leaf tokens of the node in input order.
C39_RelOpSurvivesParse ==
    conv_kind = "relop" =>
        /\ (/\ starting_rule = Rule2(S, "is_lt", "is_eq")
            /\ tokens = <<SymbolToken("LessThanSign"), SymbolToken("EqualsSign")>>)
              => conv_result = RelOpOk("LessThanOrEqual")
        /\ (/\ conv_input.kind = "Node"
            /\ \A i \in DOMAIN conv_input.children :
                  conv_input.children[i].kind = "Leaf")
              => conv_result = RelOpTryFromTokens(StackTokens(<<conv_input>>))

====
